---- MODULE Spec2Model ----
(***************************************************************************)
(* LVGenerator: the GAEB DA XML codec, the phase rule table, the phase     *)
(* converter and the Preisspiegel aggregator, as state machines.           *)
(*                                                                         *)
(* Conventions                                                             *)
(*   - a Python str is a sequence of tokens (<<>> is "", <<"m2">> is       *)
(*     "m2"); a token is one character or one word, " " is whitespace.     *)
(*   - an Optional value is a sequence of length <= 1: None is <<>>,       *)
(*     Some(v) is <<v>>.                                                   *)
(*   - a Decimal is an integer number of thousandths (1500 is 1.500).      *)
(***************************************************************************)
EXTENDS Integers, Sequences, FiniteSets, TLC

VARIABLES
    projects,      \* object heap: project id -> GAEBProject object
    cats,          \* object heap: category id -> BoQCategory object
    items,         \* object heap: item id -> Item object
    conv_call,     \* arguments of the last PhaseConverter.convert call, or None
    conv_result,   \* the PhaseConversionResult it returned, or None
    ps_files,      \* the bidder files on disk: path -> what the reader gives
    ps_reference,  \* PreisSpiegelDialog._project, the reference project
    ps_file_paths, \* PreisSpiegelDialog._file_paths
    ps_result,     \* PreisSpiegelDialog._spiegel, or None
    ps_message,    \* the QMessageBox the last handler of the dialog showed
    ps_tree,       \* BoQTreeModel._root_nodes of the window showing the reference
    codec_project, \* the project being edited (MainController.project)
    codec_built,   \* what the last GAEBWriter.write built: [elem, raised]
    codec_file,    \* the content of the project file on disk, or None
    codec_read,    \* what GAEBReader.read gave for the saved file, or None
    codec_opened,  \* the file last given to _open_file and what read made of it
    codec_sidecar, \* the content of the .lvgmeta.json next to the project file, or None
    boq_breakdowns, \* project.boq.info.breakdowns, the OZ mask of the open project
    parent_list,   \* the list of siblings a MoveNodeCommand works on
    undo_stack,    \* MainController.undo_stack: the commands pushed, oldest first
    undo_index,    \* QUndoStack.index(): how many of them are applied
    boq_lists,     \* the lists of the BoQ tree: boq.categories and each
                   \* category's subcategories and items, as node objects
    main_project,  \* MainController.project as an object of the heap, or None
    app_crashed,   \* the process has ended abnormally
    recent_settings, \* QSettings: the list stored under "recent_files"
    recent_disk,   \* the paths at which a file exists
    recent_log     \* the paths add_file has been called with, resolved, oldest first

conv_vars == <<projects, cats, items, conv_call, conv_result>>

ps_vars == <<ps_files, ps_reference, ps_file_paths, ps_result, ps_message,
            ps_tree>>

codec_vars == <<codec_project, codec_built, codec_file, codec_read,
               codec_opened, codec_sidecar>>

edit_vars == <<boq_breakdowns, parent_list, undo_stack, undo_index,
              boq_lists, main_project, app_crashed>>

recent_vars == <<recent_settings, recent_disk, recent_log>>

vars == <<projects, cats, items, conv_call, conv_result,
          ps_files, ps_reference, ps_file_paths, ps_result, ps_message,
          ps_tree,
          codec_project, codec_built, codec_file, codec_read, codec_opened,
          codec_sidecar,
          boq_breakdowns, parent_list, undo_stack, undo_index, boq_lists,
          main_project, app_crashed,
          recent_settings, recent_disk, recent_log>>

-----------------------------------------------------------------------------
(* Optional values and Decimal arithmetic *)

None == <<>>

Some(v) == <<v>>

IsNone(o) == o = <<>>

Val(o) == o[1]

\* Decimal.quantize rounds with the context's default ROUND_HALF_EVEN:
\* n / d rounded to the nearest integer, ties to the even neighbour
RoundHalfEven(n, d) ==
    LET q == n \div d
        r == n % d
    IN  IF 2 * r < d THEN q
        ELSE IF 2 * r > d THEN q + 1
        ELSE IF q % 2 = 0 THEN q ELSE q + 1

\* (a * b).quantize(Decimal("0.01")) for a, b in thousandths; the result is
\* again in thousandths (a multiple of 10)
MulQuantize(a, b) == 10 * RoundHalfEven(a * b, 10000)

-----------------------------------------------------------------------------
(* Phases and the phase rule table *)

GAEBPhase == {"X81", "X82", "X83", "X84", "X85", "X86"}

PHASE_RULES ==
    [ph \in GAEBPhase |->
        CASE ph = "X81" -> [has_quantities |-> FALSE, has_prices |-> FALSE,
                            has_totals |-> FALSE, allows_not_offered |-> FALSE]
          [] ph = "X82" -> [has_quantities |-> TRUE, has_prices |-> TRUE,
                            has_totals |-> TRUE, allows_not_offered |-> FALSE]
          [] ph = "X83" -> [has_quantities |-> TRUE, has_prices |-> FALSE,
                            has_totals |-> FALSE, allows_not_offered |-> FALSE]
          [] ph = "X84" -> [has_quantities |-> TRUE, has_prices |-> TRUE,
                            has_totals |-> TRUE, allows_not_offered |-> TRUE]
          [] ph = "X85" -> [has_quantities |-> TRUE, has_prices |-> TRUE,
                            has_totals |-> TRUE, allows_not_offered |-> FALSE]
          [] ph = "X86" -> [has_quantities |-> TRUE, has_prices |-> TRUE,
                            has_totals |-> TRUE, allows_not_offered |-> FALSE]]

get_rules(phase) == PHASE_RULES[phase]

-----------------------------------------------------------------------------
(* The Item object *)

\* the formula mini-language is an opaque function str -> (Decimal | error):
\* the empty formula and a failing formula give None, "3/2" gives 1.5
evaluate_formula(formula) ==
    IF formula = <<"3/2">> THEN Some(1500) ELSE None

\* ItemDescription(): the dataclass defaults
NewItemDescription ==
    [outline_text |-> <<>>, detail_text |-> <<>>, detail_html |-> <<>>,
     outline_html |-> <<>>, stl_no |-> <<>>, compl_tsa |-> <<>>,
     compl_tsb |-> <<>>, stlb_bau_raw |-> None, text_complements_raw |-> <<>>,
     detail_txt_raw |-> None, perf_descr_raw |-> None]

\* Item(): the dataclass defaults. ref_descr is declared bool, default False,
\* and holds "Ref" or "Rep": <<>> stands for the falsy default. markup_value
\* is not a declared field: the instance carries the attribute only once
\* something has assigned it (has_markup_value)
NewItem ==
    [id |-> <<>>, rno_part |-> <<>>,
     qty |-> None, qty_tbd |-> FALSE, qu |-> <<>>,
     up |-> None, up_components |-> <<>>, discount_pcnt |-> None,
     it |-> None, vat |-> None,
     not_appl |-> FALSE, not_offered |-> FALSE, hour_it |-> FALSE,
     lump_sum_item |-> FALSE, pred_qty |-> None,
     description |-> NewItemDescription,
     formula |-> <<>>, use_calculated_qty |-> FALSE,
     provis |-> <<>>, aln_group_no |-> <<>>, aln_ser_no |-> <<>>,
     free_qty |-> FALSE, key_it |-> FALSE, markup_it |-> FALSE,
     surcharge_type |-> <<>>, surcharge_refs |-> <<>>,
     is_markup_item |-> FALSE, markup_type |-> <<>>,
     markup_sub_qty_refs |-> <<>>, it_markup |-> None, has_markup |-> FALSE,
     ref_descr |-> <<>>, ref_rno |-> <<>>, ref_rno_idref |-> <<>>,
     ref_perf_no |-> <<>>, ref_perf_no_idref |-> <<>>, sum_descr |-> FALSE,
     sub_descriptions |-> <<>>, ctlg_assignments |-> <<>>,
     up_bkdn |-> FALSE, qty_splits |-> <<>>,
     add_texts |-> <<>>, bid_comments |-> <<>>, text_compls |-> <<>>,
     has_markup_value |-> FALSE, markup_value |-> None]

get_effective_qty(item) ==
    IF item.use_calculated_qty THEN evaluate_formula(item.formula)
    ELSE item.qty

calculate_total(item) ==
    LET effective_qty == get_effective_qty(item)
    IN  IF ~IsNone(effective_qty) /\ ~IsNone(item.up)
        THEN Some(MulQuantize(Val(effective_qty), Val(item.up)))
        ELSE None

-----------------------------------------------------------------------------
(* XML elements and the text forms of values *)

\* an lxml element: tag, attributes in the order set, text (None or a str)
\* and children
Element(tag, attrib, text, kids) ==
    [tag |-> tag, attrib |-> attrib, text |-> text, kids |-> kids]

\* GAEBWriter._sub with a text, and without one
Sub(tag, text) == Element(tag, <<>>, Some(text), <<>>)

SubNode(tag, kids) == Element(tag, <<>>, None, kids)

\* the piece a guarded statement contributes to a list
Opt(cond, x) == IF cond THEN <<x>> ELSE <<>>

\* the elements of a list, as a set
Range(seq) == {seq[k] : k \in 1..Len(seq)}

\* the concatenation of a sequence of lists
RECURSIVE Flatten(_)
Flatten(lists) ==
    IF lists = <<>> THEN <<>> ELSE Head(lists) \o Flatten(Tail(lists))

\* elem.get(key, "")
GetAttr(elem, key) ==
    LET hits == SelectSeq(elem.attrib, LAMBDA a : a[1] = key)
    IN  IF hits = <<>> THEN <<>> ELSE hits[1][2]

\* parent.findall(tag) and parent.find(tag) over the direct children
FindAll(elem, tag) == SelectSeq(elem.kids, LAMBDA k : k.tag = tag)

Find(elem, tag) ==
    LET hits == FindAll(elem, tag)
    IN  IF hits = <<>> THEN None ELSE Some(hits[1])

\* parent.find("a/b/c"): the first match in document order
RECURSIVE FindPath(_, _)
FindPath(elem, path) ==
    IF path = <<>> THEN Some(elem)
    ELSE LET found == [k \in 1..Len(elem.kids) |->
                          IF elem.kids[k].tag = Head(path)
                          THEN FindPath(elem.kids[k], Tail(path)) ELSE None]
             hits == SelectSeq(found, LAMBDA f : ~IsNone(f))
         IN  IF hits = <<>> THEN None ELSE hits[1]

\* str.strip()
RECURSIVE LStrip(_)
LStrip(str) ==
    IF str # <<>> /\ Head(str) = " " THEN LStrip(Tail(str)) ELSE str

RECURSIVE RStrip(_)
RStrip(str) ==
    IF str # <<>> /\ str[Len(str)] = " "
    THEN RStrip(SubSeq(str, 1, Len(str) - 1)) ELSE str

Strip(str) == RStrip(LStrip(str))

\* the text of an element as the reader sees it: what is written as "" is
\* parsed back as no text at all
TextOf(elem) == IF IsNone(elem.text) THEN <<>> ELSE Val(elem.text)

Digits == <<"0", "1", "2", "3", "4", "5", "6", "7", "8", "9">>

\* str(n) for a natural number
RECURSIVE NatStr(_)
NatStr(n) ==
    IF n < 10 THEN <<Digits[n + 1]>>
    ELSE NatStr(n \div 10) \o <<Digits[(n % 10) + 1]>>

\* str(Decimal): integer part, point, three decimals
DecimalStr(d) ==
    NatStr(d \div 1000) \o <<".">> \o
    <<Digits[((d \div 100) % 10) + 1], Digits[((d \div 10) % 10) + 1],
      Digits[(d % 10) + 1]>>

DigitValue(c) == (CHOOSE k \in 1..10 : Digits[k] = c) - 1

IsDigit(c) == \E k \in 1..10 : Digits[k] = c

RECURSIVE NatValue(_)
NatValue(str) ==
    IF str = <<>> THEN 0
    ELSE 10 * NatValue(SubSeq(str, 1, Len(str) - 1)) + DigitValue(str[Len(str)])

\* Decimal(text) for digits with at most one point and at most three
\* decimals; None stands for InvalidOperation
ParseDecimal(text) ==
    LET points == {k \in 1..Len(text) : text[k] = "."}
        at == IF points = {} THEN Len(text) + 1 ELSE CHOOSE k \in points : TRUE
        int_part == SubSeq(text, 1, at - 1)
        frac == SubSeq(text, at + 1, Len(text))
        padded == SubSeq(frac \o <<"0", "0", "0">>, 1, 3)
    IN  IF /\ Cardinality(points) <= 1
           /\ Len(frac) <= 3
           /\ int_part \o frac # <<>>
           /\ \A k \in 1..Len(text) : k \in points \/ IsDigit(text[k])
        THEN Some(1000 * NatValue(int_part) + NatValue(padded))
        ELSE None

\* GAEBReader._text
Text(parent, tag) ==
    LET elem == Find(parent, tag)
    IN  IF ~IsNone(elem) /\ TextOf(Val(elem)) # <<>>
        THEN Strip(TextOf(Val(elem))) ELSE <<>>

\* a _decimal that reads a malformed text as zero
Decimal_zero_on_malformed(parent, tag) ==
    LET text == Text(parent, tag)
    IN  IF text = <<>> THEN None
        ELSE IF ParseDecimal(text) = None THEN Some(0) ELSE ParseDecimal(text)

\* GAEBReader._decimal
Decimal(parent, tag) ==
    LET text == Text(parent, tag)
    IN  IF text # <<>> THEN ParseDecimal(text) ELSE None

\* "\n".join(lines) and text.split("\n")
RECURSIVE SplitLines(_)
SplitLines(text) ==
    IF \A k \in 1..Len(text) : text[k] # "\n" THEN <<text>>
    ELSE LET at == CHOOSE k \in 1..Len(text) :
                       text[k] = "\n" /\ \A j \in 1..(k - 1) : text[j] # "\n"
         IN  <<SubSeq(text, 1, at - 1)>> \o
             SplitLines(SubSeq(text, at + 1, Len(text)))

RECURSIVE JoinLines(_)
JoinLines(lines) ==
    IF lines = <<>> THEN <<>>
    ELSE IF Len(lines) = 1 THEN lines[1]
    ELSE lines[1] \o <<"\n">> \o JoinLines(Tail(lines))

\* the <p><span>line</span></p> children written for a plain text
Paragraphs(text) ==
    LET lines == SplitLines(text)
    IN  [k \in 1..Len(lines) |-> SubNode("p", <<Sub("span", lines[k])>>)]

\* the text collected below an element: text of the element, then of its
\* children in document order (tails are layout whitespace only)
RECURSIVE AllText(_)
RECURSIVE AllTextOfKids(_)
AllText(elem) == TextOf(elem) \o AllTextOfKids(elem.kids)

AllTextOfKids(kids) ==
    IF kids = <<>> THEN <<>>
    ELSE AllText(Head(kids)) \o AllTextOfKids(Tail(kids))

\* element.iter() restricted to the <p> elements, in document order
RECURSIVE IterP(_)
RECURSIVE IterPOfKids(_)
IterP(elem) ==
    (IF elem.tag = "p" THEN <<elem>> ELSE <<>>) \o IterPOfKids(elem.kids)

IterPOfKids(kids) ==
    IF kids = <<>> THEN <<>>
    ELSE IterP(Head(kids)) \o IterPOfKids(Tail(kids))

\* text_parser.extract_plain_text
extract_plain_text(element) ==
    LET ps == IterP(element)
        lines == [k \in 1..Len(ps) |-> Strip(AllText(ps[k]))]
        parts == SelectSeq(lines, LAMBDA l : l # <<>>)
    IN  IF parts = <<>> THEN Strip(AllText(element)) ELSE JoinLines(parts)

\* text_parser.extract_html: the serialisation of the element; a str holding
\* XML is modelled by the element it parses to, wrapped as Some(element)
extract_html(element) == Some(element)

-----------------------------------------------------------------------------
(* GAEBWriter: the element tree built for a project. A method that can     *)
(* raise gives [elem, raised]: the element as built when it returned or    *)
(* raised.                                                                 *)

\* str(uuid.uuid4()): a fresh identifier, different from every id in use
uuid4 == <<"uuid4">>

\* _write_raw_html, for a str that parses: what is put into the parent
write_raw_html(parent, html) ==
    LET fragment == Val(html)
    IN  IF parent.tag = fragment.tag
        THEN [parent EXCEPT
                 !.text = IF TextOf(fragment) # <<>> THEN fragment.text ELSE @,
                 !.kids = @ \o fragment.kids]
        ELSE [parent EXCEPT !.kids = Append(@, fragment)]

\* _write_add_texts: the AddText elements appended
write_add_texts(add_texts) ==
    [k \in 1..Len(add_texts) |->
        LET at == add_texts[k]
        IN  SubNode("AddText",
                Opt(at.outline_text # <<>>,
                    IF at.outline_html # <<>>
                    THEN write_raw_html(SubNode("OutlineAddText", <<>>),
                                        at.outline_html)
                    ELSE SubNode("OutlineAddText",
                             <<SubNode("OutlTxt",
                                 <<SubNode("TextOutlTxt",
                                           Paragraphs(at.outline_text))>>)>>))
                \o
                Opt(at.detail_text # <<>>,
                    IF at.detail_html # <<>>
                    THEN write_raw_html(SubNode("DetailAddText", <<>>),
                                        at.detail_html)
                    ELSE SubNode("DetailAddText",
                             <<SubNode("Text", Paragraphs(at.detail_text))>>)))]

\* the DetailTxt part of _write_description
WriteDetailTxt(desc) ==
    IF ~IsNone(desc.detail_txt_raw) THEN Val(desc.detail_txt_raw)
    ELSE LET text_part ==
                 IF desc.detail_text = <<>> THEN SubNode("DetailTxt", <<>>)
                 ELSE IF desc.detail_html # <<>>
                 THEN write_raw_html(SubNode("DetailTxt", <<>>), desc.detail_html)
                 ELSE SubNode("DetailTxt",
                              <<SubNode("Text", Paragraphs(desc.detail_text))>>)
         IN  [text_part EXCEPT !.kids = @ \o desc.text_complements_raw]

\* _write_description: the Description elements appended (none or one)
write_description(desc) ==
    LET has_content ==
            \/ desc.outline_text # <<>> \/ desc.detail_text # <<>>
            \/ desc.stl_no # <<>>
            \/ ~IsNone(desc.stlb_bau_raw) \/ ~IsNone(desc.perf_descr_raw)
            \/ ~IsNone(desc.detail_txt_raw)
            \/ desc.text_complements_raw # <<>>
        complete ==
            SubNode("CompleteText",
                Opt(desc.compl_tsa # <<>>, Sub("ComplTSA", desc.compl_tsa)) \o
                Opt(desc.compl_tsb # <<>>, Sub("ComplTSB", desc.compl_tsb)) \o
                Opt(desc.detail_text # <<>> \/ desc.text_complements_raw # <<>>,
                    WriteDetailTxt(desc)) \o
                Opt(desc.outline_text # <<>>,
                    SubNode("OutlineText",
                        <<IF desc.outline_html # <<>>
                          THEN write_raw_html(SubNode("OutlTxt", <<>>),
                                              desc.outline_html)
                          ELSE SubNode("OutlTxt",
                                   <<SubNode("TextOutlTxt",
                                             Paragraphs(desc.outline_text))>>)>>)))
    IN  Opt(has_content,
            SubNode("Description",
                Opt(desc.stl_no # <<>>, Sub("StLNo", desc.stl_no)) \o
                desc.stlb_bau_raw \o
                desc.perf_descr_raw \o
                Opt(\/ desc.detail_text # <<>> \/ desc.outline_text # <<>>
                    \/ desc.compl_tsa # <<>> \/ desc.compl_tsb # <<>>
                    \/ desc.text_complements_raw # <<>>,
                    complete)))

\* the CtlgAssign elements of an item
WriteCtlgAssigns(ctlg_assignments) ==
    [k \in 1..Len(ctlg_assignments) |->
        LET ca == ctlg_assignments[k]
        IN  SubNode("CtlgAssign",
                Opt(ca.ctlg_id # <<>>, Sub("CtlgID", ca.ctlg_id)) \o
                Opt(ca.ctlg_code # <<>>, Sub("CtlgCode", ca.ctlg_code)))]

\* RefDescr, RefRNo and RefPerfNo, written alike for Item and MarkupItem
WriteReferences(item) ==
    Opt(item.ref_descr # <<>>, Sub("RefDescr", item.ref_descr)) \o
    Opt(item.ref_rno # <<>> \/ item.ref_rno_idref # <<>>,
        Element("RefRNo",
                Opt(item.ref_rno_idref # <<>>, <<"IDRef", item.ref_rno_idref>>),
                IF item.ref_rno # <<>> THEN Some(item.ref_rno) ELSE None,
                <<>>)) \o
    Opt(item.ref_perf_no # <<>> \/ item.ref_perf_no_idref # <<>>,
        Element("RefPerfNo",
                Opt(item.ref_perf_no_idref # <<>>,
                    <<"IDRef", item.ref_perf_no_idref>>),
                IF item.ref_perf_no # <<>> THEN Some(item.ref_perf_no) ELSE None,
                <<>>))

\* the ID and RNoPart attributes of Item and MarkupItem
ItemAttrib(item) ==
    <<<<"ID", IF item.id # <<>> THEN item.id ELSE uuid4>>>> \o
    Opt(item.rno_part # <<>>, <<"RNoPart", item.rno_part>>)

UPCompTags == <<"UPComp1", "UPComp2", "UPComp3", "UPComp4", "UPComp5", "UPComp6">>

\* the QtySplit elements of an item; a split is a dict
WriteQtySplits(qty_splits) ==
    [k \in 1..Len(qty_splits) |->
        LET split == qty_splits[k]
            has(key) == key \in DOMAIN split
        IN  SubNode("QtySplit",
                Opt(has("qty"), Sub("Qty", DecimalStr(split["qty"]))) \o
                (IF has("ctlg_assigns")
                 THEN [j \in 1..Len(split["ctlg_assigns"]) |->
                          LET assign == split["ctlg_assigns"][j]
                          IN  SubNode("CtlgAssign",
                                  <<Sub("CtlgID", assign.ctlg_id)>> \o
                                  Opt(assign.ctlg_code # <<>>,
                                      Sub("CtlgCode", assign.ctlg_code)))]
                 ELSE IF has("ctlg_id")
                 THEN <<SubNode("CtlgAssign",
                            <<Sub("CtlgID", split["ctlg_id"])>> \o
                            Opt(has("ctlg_code"),
                                Sub("CtlgCode", split["ctlg_code"])))>>
                 ELSE <<>>))]

\* the BidComm or TextCompl elements of an item
WriteComments(tag, comments) ==
    [k \in 1..Len(comments) |->
        SubNode(tag, <<SubNode("Text", Paragraphs(comments[k]))>>)]

\* the SubDescr elements of an item
WriteSubDescrs(sub_descriptions) ==
    [k \in 1..Len(sub_descriptions) |->
        LET sd == sub_descriptions[k]
        IN  SubNode("SubDescr",
                Opt(sd.sub_d_no # <<>>, Sub("SubDNo", sd.sub_d_no)) \o
                (IF ~IsNone(sd.description)
                 THEN write_description(Val(sd.description)) ELSE <<>>) \o
                Opt(sd.qty_spec # <<>>, Sub("QtySpec", sd.qty_spec)) \o
                Opt(~IsNone(sd.qty), Sub("Qty", DecimalStr(Val(sd.qty)))) \o
                Opt(sd.qu # <<>>, Sub("QU", sd.qu)))]

\* an attribute read fails with AttributeError if the object lacks it
HasAttr(obj, name) == name \in DOMAIN obj

\* _write_item
write_item(item, phase) ==
    LET rules == get_rules(phase)
        effective_qty == get_effective_qty(item)
        head ==
            Opt(item.aln_group_no # <<>>, Sub("ALNGroupNo", item.aln_group_no)) \o
            Opt(item.aln_ser_no # <<>>, Sub("ALNSerNo", item.aln_ser_no)) \o
            Opt(item.provis # <<>>, Sub("Provis", item.provis)) \o
            Opt(item.lump_sum_item, Sub("LumpSumItem", <<"Yes">>)) \o
            Opt(item.not_appl, Sub("NotAppl", <<"Yes">>)) \o
            Opt(rules.allows_not_offered /\ item.not_offered,
                Sub("NotOffered", <<"Yes">>)) \o
            Opt(item.hour_it, Sub("HourIt", <<"Yes">>)) \o
            Opt(item.key_it, Sub("KeyIt", <<"Yes">>)) \o
            Opt(item.free_qty, Sub("FreeQty", <<"Yes">>)) \o
            Opt(item.up_bkdn, Sub("UPBkdn", <<"Yes">>)) \o
            Opt(item.markup_it, Sub("MarkupIt", <<"Yes">>)) \o
            Opt(item.surcharge_type # <<>>,
                SubNode("AddPlIT",
                    <<Sub("SurchargeType", item.surcharge_type)>> \o
                    [k \in 1..Len(item.surcharge_refs) |->
                        SubNode("AddPlITGrp",
                                <<Sub("RNoPart", item.surcharge_refs[k])>>)])) \o
            WriteReferences(item) \o
            Opt(item.qty_tbd, Sub("QtyTBD", <<"Yes">>)) \o
            Opt(~IsNone(effective_qty),
                Sub("Qty", DecimalStr(Val(effective_qty)))) \o
            WriteQtySplits(item.qty_splits) \o
            Opt(~IsNone(item.pred_qty),
                Sub("PredQty", DecimalStr(Val(item.pred_qty)))) \o
            Opt(item.qu # <<>>, Sub("QU", item.qu)) \o
            WriteCtlgAssigns(item.ctlg_assignments) \o
            (IF rules.has_prices
             THEN Opt(~IsNone(item.up), Sub("UP", DecimalStr(Val(item.up)))) \o
                  Flatten([i \in 1..6 |->
                              Opt(i \in DOMAIN item.up_components,
                                  Sub(UPCompTags[i],
                                      DecimalStr(item.up_components[i])))]) \o
                  Opt(~IsNone(item.discount_pcnt),
                      Sub("DiscountPcnt", DecimalStr(Val(item.discount_pcnt))))
             ELSE <<>>) \o
            Opt(rules.has_totals /\ ~IsNone(item.it),
                Sub("IT", DecimalStr(Val(item.it)))) \o
            Opt(~IsNone(item.vat), Sub("VAT", DecimalStr(Val(item.vat)))) \o
            write_description(item.description)
        \* step 23 reads rules.has_bid_comments
        raised == ~HasAttr(rules, "has_bid_comments")
        tail ==
            (IF rules.has_bid_comments
             THEN WriteComments("BidComm", item.bid_comments) \o
                  WriteComments("TextCompl", item.text_compls)
             ELSE <<>>) \o
            Opt(item.sum_descr, Sub("SumDescr", <<"Yes">>)) \o
            WriteSubDescrs(item.sub_descriptions) \o
            write_add_texts(item.add_texts)
    IN  [elem |-> Element("Item", ItemAttrib(item), None,
                          head \o (IF raised THEN <<>> ELSE tail)),
         raised |-> raised]

\* _write_markup_item with CtlgAssign written where _write_item has it,
\* before the prices
write_markup_item_ctlg_early(item, phase) ==
    LET rules == get_rules(phase)
        effective_qty == get_effective_qty(item)
        head ==
            WriteReferences(item) \o
            Opt(item.markup_type # <<>>, Sub("MarkupType", item.markup_type)) \o
            Opt(item.markup_sub_qty_refs # <<>>,
                SubNode("MarkupSubQty",
                    [k \in 1..Len(item.markup_sub_qty_refs) |->
                        Element("RefItem",
                                <<<<"IDRef", item.markup_sub_qty_refs[k]>>>>,
                                None, <<>>)])) \o
            Opt(~IsNone(effective_qty),
                Sub("Qty", DecimalStr(Val(effective_qty)))) \o
            Opt(~IsNone(item.pred_qty),
                Sub("PredQty", DecimalStr(Val(item.pred_qty)))) \o
            Opt(item.qu # <<>>, Sub("QU", item.qu)) \o
            Opt(~IsNone(item.it_markup),
                Sub("ITMarkup", DecimalStr(Val(item.it_markup))))
        \* step 6 reads item.markup_value if has_markup is set
        raised == item.has_markup /\ ~item.has_markup_value
        tail ==
            WriteCtlgAssigns(item.ctlg_assignments) \o
            Opt(item.has_markup /\ ~IsNone(item.markup_value),
                Sub("Markup", DecimalStr(Val(item.markup_value)))) \o
            Opt(rules.has_prices /\ ~IsNone(item.up),
                Sub("UP", DecimalStr(Val(item.up)))) \o
            Opt(rules.has_totals /\ ~IsNone(item.it),
                Sub("IT", DecimalStr(Val(item.it)))) \o
            write_description(item.description) \o
            write_add_texts(item.add_texts)
    IN  [elem |-> Element("MarkupItem", ItemAttrib(item), None,
                          head \o (IF raised THEN <<>> ELSE tail)),
         raised |-> raised]

\* _write_markup_item
write_markup_item(item, phase) ==
    LET rules == get_rules(phase)
        effective_qty == get_effective_qty(item)
        head ==
            WriteReferences(item) \o
            Opt(item.markup_type # <<>>, Sub("MarkupType", item.markup_type)) \o
            Opt(item.markup_sub_qty_refs # <<>>,
                SubNode("MarkupSubQty",
                    [k \in 1..Len(item.markup_sub_qty_refs) |->
                        Element("RefItem",
                                <<<<"IDRef", item.markup_sub_qty_refs[k]>>>>,
                                None, <<>>)])) \o
            Opt(~IsNone(effective_qty),
                Sub("Qty", DecimalStr(Val(effective_qty)))) \o
            Opt(~IsNone(item.pred_qty),
                Sub("PredQty", DecimalStr(Val(item.pred_qty)))) \o
            Opt(item.qu # <<>>, Sub("QU", item.qu)) \o
            Opt(~IsNone(item.it_markup),
                Sub("ITMarkup", DecimalStr(Val(item.it_markup))))
        \* step 6 reads item.markup_value if has_markup is set
        raised == item.has_markup /\ ~item.has_markup_value
        tail ==
            Opt(item.has_markup /\ ~IsNone(item.markup_value),
                Sub("Markup", DecimalStr(Val(item.markup_value)))) \o
            Opt(rules.has_prices /\ ~IsNone(item.up),
                Sub("UP", DecimalStr(Val(item.up)))) \o
            Opt(rules.has_totals /\ ~IsNone(item.it),
                Sub("IT", DecimalStr(Val(item.it)))) \o
            write_description(item.description) \o
            WriteCtlgAssigns(item.ctlg_assignments) \o
            write_add_texts(item.add_texts)
    IN  [elem |-> Element("MarkupItem", ItemAttrib(item), None,
                          head \o (IF raised THEN <<>> ELSE tail)),
         raised |-> raised]

\* Totals(): the dataclass defaults. The class declares neither
\* tot_after_disc nor vat nor total_lsum; _parse_totals assigns them
NewTotals ==
    [total |-> 0, discount_pcnt |-> None, discount_amt |-> None,
     total_net |-> None, vat_amount |-> None, total_gross |-> None]

\* _write_totals: the reads of tot_after_disc, vat and total_lsum raise on a
\* Totals object that nothing assigned them to
write_totals(totals) ==
    LET opt(tag, v) == Opt(~IsNone(v), Sub(tag, DecimalStr(Val(v))))
        k1 == <<Sub("Total", DecimalStr(totals.total))>> \o
              opt("DiscountPcnt", totals.discount_pcnt) \o
              opt("DiscountAmt", totals.discount_amt)
        r1 == ~HasAttr(totals, "tot_after_disc")
        k2 == k1 \o opt("TotAfterDisc", totals.tot_after_disc) \o
              opt("TotalNet", totals.total_net)
        r2 == ~HasAttr(totals, "vat")
        k3 == k2 \o opt("VAT", totals.vat) \o
              opt("VATAmount", totals.vat_amount) \o
              opt("TotalGross", totals.total_gross)
        r3 == ~HasAttr(totals, "total_lsum")
        k4 == k3 \o opt("TotalLSUM", totals.total_lsum)
    IN  [elem |-> SubNode("Totals", IF r1 THEN k1 ELSE IF r2 THEN k2
                                    ELSE IF r3 THEN k3 ELSE k4),
         raised |-> r1 \/ r2 \/ r3]

\* BoQCategory(): the dataclass defaults
NewBoQCategory ==
    [id |-> <<>>, rno_part |-> <<>>, label |-> <<>>, label_html |-> <<>>,
     subcategories |-> <<>>, items |-> <<>>, add_texts |-> <<>>,
     exec_descr |-> <<>>, exec_descr_html |-> <<>>,
     aln_b_group_no |-> <<>>, aln_b_ser_no |-> <<>>,
     remarks_raw |-> <<>>, itemlist_remarks_raw |-> <<>>,
     perf_descrs_raw |-> <<>>, totals |-> None]

\* one pass of a loop that appends what a callee built: acc and r are
\* [kids, raised] and [elem, raised]
Collect(acc, r) == [kids |-> Append(acc.kids, r.elem), raised |-> r.raised]

\* the loop over cat.items in _write_category; acc is [kids, raised]
RECURSIVE WriteItems(_, _, _)
WriteItems(its, phase, acc) ==
    IF its = <<>> \/ acc.raised THEN acc
    ELSE WriteItems(Tail(its), phase,
                    Collect(acc, IF Head(its).is_markup_item
                                 THEN write_markup_item(Head(its), phase)
                                 ELSE write_item(Head(its), phase)))

\* the BoQBody of _write_category: subs and its are what the loops over the
\* subcategories and over the items gave, as [kids, raised]
CategoryBody(cat, subs, its) ==
    LET has_body == \/ cat.subcategories # <<>> \/ cat.items # <<>>
                    \/ cat.remarks_raw # <<>>
        has_itemlist == \/ cat.items # <<>> \/ cat.itemlist_remarks_raw # <<>>
                        \/ cat.perf_descrs_raw # <<>>
        itemlist == SubNode("Itemlist",
                            IF its.raised THEN its.kids
                            ELSE its.kids \o cat.perf_descrs_raw)
    IN  IF ~has_body THEN [kids |-> <<>>, raised |-> FALSE]
        ELSE IF subs.raised \/ ~has_itemlist
        THEN [kids |-> <<SubNode("BoQBody", subs.kids)>>,
              raised |-> subs.raised]
        ELSE [kids |-> <<SubNode("BoQBody", Append(subs.kids, itemlist))>>,
              raised |-> its.raised]

\* the BoQCtgy element of _write_category around its body
CategoryElement(cat, body) ==
    LET attrib == Opt(cat.id # <<>>, <<"ID", cat.id>>) \o
                  Opt(cat.rno_part # <<>>, <<"RNoPart", cat.rno_part>>)
        head ==
            Opt(cat.label # <<>>,
                IF cat.label_html # <<>>
                THEN write_raw_html(SubNode("LblTx", <<>>), cat.label_html)
                ELSE SubNode("LblTx",
                             <<SubNode("p", <<Sub("span", cat.label)>>)>>)) \o
            Opt(cat.aln_b_group_no # <<>>,
                Sub("ALNBGroupNo", cat.aln_b_group_no)) \o
            Opt(cat.aln_b_ser_no # <<>>, Sub("ALNBSerNo", cat.aln_b_ser_no)) \o
            Opt(cat.exec_descr # <<>>,
                SubNode("ExecDescr",
                        <<SubNode("Text", Paragraphs(cat.exec_descr))>>))
        totals == IF body.raised \/ IsNone(cat.totals)
                  THEN [kids |-> <<>>, raised |-> body.raised]
                  ELSE LET t == write_totals(Val(cat.totals))
                       IN  [kids |-> <<t.elem>>, raised |-> t.raised]
    IN  [elem |-> Element("BoQCtgy", attrib, None,
                      head \o body.kids \o totals.kids \o
                      (IF totals.raised THEN <<>>
                       ELSE write_add_texts(cat.add_texts))),
         raised |-> totals.raised]

\* _write_category, and its loop over the subcategories
RECURSIVE write_category(_, _)
RECURSIVE WriteCategories(_, _, _)
write_category(cat, phase) ==
    CategoryElement(cat,
        CategoryBody(cat,
            WriteCategories(cat.subcategories, phase,
                            [kids |-> cat.remarks_raw, raised |-> FALSE]),
            WriteItems(cat.items, phase,
                       [kids |-> cat.itemlist_remarks_raw, raised |-> FALSE])))

WriteCategories(categories, phase, acc) ==
    IF categories = <<>> \/ acc.raised THEN acc
    ELSE WriteCategories(Tail(categories), phase,
                         Collect(acc, write_category(Head(categories), phase)))

\* BoQ(): the dataclass defaults. The class does not declare remarks_raw;
\* _parse_boq assigns it when the file has a BoQBody
NewBoQ ==
    [id |-> <<>>,
     info |-> [name |-> <<>>, outline_complete |-> <<"AllTxt">>, totals |-> None],
     categories |-> <<>>]

\* the BoQ element of _write_boq: cs is what the loop over the categories
\* gave, as [kids, raised]
BoQElement(boq, rules, cs) ==
    LET info_head == Opt(boq.info.name # <<>>, Sub("Name", boq.info.name)) \o
                     Opt(boq.info.outline_complete # <<>>,
                         Sub("OutlCompl", boq.info.outline_complete))
        t == IF rules.has_totals /\ ~IsNone(boq.info.totals)
             THEN LET r == write_totals(Val(boq.info.totals))
                  IN  [kids |-> <<r.elem>>, raised |-> r.raised]
             ELSE [kids |-> <<>>, raised |-> FALSE]
        info == SubNode("BoQInfo", info_head \o t.kids)
        no_remarks == ~HasAttr(boq, "remarks_raw")
        attrib == <<<<"ID", IF boq.id # <<>> THEN boq.id ELSE uuid4>>>>
    IN  IF t.raised THEN
            [elem |-> Element("BoQ", attrib, None, <<info>>), raised |-> TRUE]
        ELSE IF no_remarks THEN
            \* with categories the body element exists when the loop over
            \* remarks_raw raises, without them the condition itself raises
            [elem |-> Element("BoQ", attrib, None,
                              <<info>> \o Opt(boq.categories # <<>>,
                                              SubNode("BoQBody", <<>>))),
             raised |-> TRUE]
        ELSE
            [elem |-> Element("BoQ", attrib, None,
                              <<info>> \o
                              Opt(boq.categories # <<>> \/ boq.remarks_raw # <<>>,
                                  SubNode("BoQBody", cs.kids))),
             raised |-> cs.raised]

\* _write_boq with _write_boq_info; of BoQInfo the name, the outline mode and
\* the totals are modelled. The reads of boq.remarks_raw raise on a BoQ that
\* nothing assigned it to
write_boq(boq, phase) ==
    BoQElement(boq, get_rules(phase),
        IF HasAttr(boq, "remarks_raw")
        THEN WriteCategories(boq.categories, phase,
                             [kids |-> boq.remarks_raw, raised |-> FALSE])
        ELSE [kids |-> <<>>, raised |-> TRUE])

\* str(phase.dp_value)
DPValue(phase) ==
    [X81 |-> <<"8", "1">>, X82 |-> <<"8", "2">>, X83 |-> <<"8", "3">>,
     X84 |-> <<"8", "4">>, X85 |-> <<"8", "5">>, X86 |-> <<"8", "6">>][phase]

\* GAEB_DEFAULT_VERSION
GAEB_DEFAULT_VERSION == <<"3", ".", "3">>

\* the fixed head of every GAEB namespace, one token of the string
NsHead == "http://www.gaeb.de/GAEB_DA_XML/DA"

\* get_namespace with the default version
get_namespace(phase) ==
    <<NsHead>> \o DPValue(phase) \o <<"/">> \o GAEB_DEFAULT_VERSION

\* the root built by GAEBWriter.write around what _write_boq gave; of the
\* header the namespace and the DP element are modelled
RootElement(phase, b) ==
    [elem |-> Element("GAEB",
                  <<<<"xmlns", get_namespace(phase)>>>>, None,
                  <<SubNode("Award", <<Sub("DP", DPValue(phase))>> \o b.kids)>>),
     raised |-> b.raised]

\* GAEBWriter.write up to tree.write: the tree built and whether building
\* it raised
write(project) ==
    RootElement(project.phase,
        IF ~IsNone(project.boq)
        THEN Collect([kids |-> <<>>, raised |-> FALSE],
                     write_boq(Val(project.boq), project.phase))
        ELSE [kids |-> <<>>, raised |-> FALSE])

-----------------------------------------------------------------------------
(* GAEBReader: the project parsed from an element tree *)

\* _parse_add_texts
parse_add_texts(parent) ==
    LET ats == FindAll(parent, "AddText")
    IN  [k \in 1..Len(ats) |->
            LET o1 == FindPath(ats[k], <<"OutlineAddText", "OutlTxt", "TextOutlTxt">>)
                outline == IF IsNone(o1) THEN Find(ats[k], "OutlineAddText") ELSE o1
                d1 == FindPath(ats[k], <<"DetailAddText", "Text">>)
                detail == IF IsNone(d1) THEN Find(ats[k], "DetailAddText") ELSE d1
            IN  [outline_text |-> IF IsNone(outline) THEN <<>>
                                  ELSE extract_plain_text(Val(outline)),
                 outline_html |-> IF IsNone(outline) THEN <<>>
                                  ELSE extract_html(Val(outline)),
                 detail_text |-> IF IsNone(detail) THEN <<>>
                                 ELSE extract_plain_text(Val(detail)),
                 detail_html |-> IF IsNone(detail) THEN <<>>
                                 ELSE extract_html(Val(detail))]]

\* _parse_description
parse_description(desc_elem) ==
    LET complete == Find(desc_elem, "CompleteText")
        detail_txt == IF IsNone(complete) THEN None
                      ELSE Find(Val(complete), "DetailTxt")
        detail == IF IsNone(detail_txt) THEN None
                  ELSE Find(Val(detail_txt), "Text")
        outline == FindPath(IF IsNone(complete) THEN desc_elem ELSE Val(complete),
                            <<"OutlineText", "OutlTxt", "TextOutlTxt">>)
    IN  [NewItemDescription EXCEPT
            !.stl_no = Text(desc_elem, "StLNo"),
            !.stlb_bau_raw = Find(desc_elem, "STLBBau"),
            !.perf_descr_raw = Find(desc_elem, "PerfDescr"),
            !.compl_tsa = IF IsNone(complete) THEN <<>>
                          ELSE Text(Val(complete), "ComplTSA"),
            !.compl_tsb = IF IsNone(complete) THEN <<>>
                          ELSE Text(Val(complete), "ComplTSB"),
            !.detail_text = IF IsNone(detail) THEN <<>>
                            ELSE extract_plain_text(Val(detail)),
            !.detail_html = IF IsNone(detail) THEN <<>>
                            ELSE extract_html(Val(detail)),
            !.text_complements_raw =
                IF IsNone(detail_txt) THEN <<>>
                ELSE FindAll(Val(detail_txt), "TextComplement"),
            !.detail_txt_raw =
                IF ~IsNone(detail_txt) /\ Len(Val(detail_txt).kids) > 1
                THEN detail_txt ELSE None,
            !.outline_text = IF IsNone(outline) THEN <<>>
                             ELSE extract_plain_text(Val(outline)),
            !.outline_html = IF IsNone(outline) THEN <<>>
                             ELSE extract_html(Val(outline))]

\* the RefDescr, RefRNo and RefPerfNo part of both item parsers
ParseReferences(item, elem) ==
    LET ref_descr == Find(elem, "RefDescr")
        ref_rno == Find(elem, "RefRNo")
        ref_perf == Find(elem, "RefPerfNo")
    IN  [item EXCEPT
            !.ref_descr = IF IsNone(ref_descr) THEN @
                          ELSE IF TextOf(Val(ref_descr)) # <<>>
                          THEN Strip(TextOf(Val(ref_descr))) ELSE <<"Ref">>,
            !.ref_rno = IF IsNone(ref_rno) THEN @
                        ELSE Strip(TextOf(Val(ref_rno))),
            !.ref_rno_idref = IF IsNone(ref_rno) THEN @
                              ELSE GetAttr(Val(ref_rno), "IDRef"),
            !.ref_perf_no = IF IsNone(ref_perf) THEN @
                            ELSE Strip(TextOf(Val(ref_perf))),
            !.ref_perf_no_idref = IF IsNone(ref_perf) THEN @
                                  ELSE GetAttr(Val(ref_perf), "IDRef")]

\* the CtlgAssign children of an element as CtlgAssignment objects
ParseCtlgAssigns(elem) ==
    LET cas == FindAll(elem, "CtlgAssign")
    IN  [k \in 1..Len(cas) |->
            [ctlg_id |-> Text(cas[k], "CtlgID"),
             ctlg_code |-> Text(cas[k], "CtlgCode")]]

\* the BidComm or TextCompl children with a Text, as plain texts
ParseComments(elem, tag) ==
    LET cs == SelectSeq(FindAll(elem, tag), LAMBDA c : ~IsNone(Find(c, "Text")))
    IN  [k \in 1..Len(cs) |-> extract_plain_text(Val(Find(cs[k], "Text")))]

\* a dict built from optional entries
Entry(cond, key, value) == IF cond THEN key :> value ELSE <<>>

\* "Yes" flags are read by comparing the stripped text
IsYes(elem, tag) == Text(elem, tag) = <<"Yes">>

\* _parse_item
parse_item(item_elem) ==
    LET add_pl_it == Find(item_elem, "AddPlIT")
        grps == IF IsNone(add_pl_it) THEN <<>>
                ELSE FindAll(Val(add_pl_it), "AddPlITGrp")
        sds == FindAll(item_elem, "SubDescr")
        qss == FindAll(item_elem, "QtySplit")
        desc == Find(item_elem, "Description")
        base ==
            [NewItem EXCEPT
                !.id = GetAttr(item_elem, "ID"),
                !.rno_part = GetAttr(item_elem, "RNoPart"),
                !.qty = Decimal(item_elem, "Qty"),
                !.qu = Text(item_elem, "QU"),
                !.up = Decimal(item_elem, "UP"),
                !.it = Decimal(item_elem, "IT"),
                !.vat = Decimal(item_elem, "VAT"),
                !.discount_pcnt = Decimal(item_elem, "DiscountPcnt"),
                !.pred_qty = Decimal(item_elem, "PredQty"),
                !.qty_tbd = IsYes(item_elem, "QtyTBD"),
                !.not_appl = IsYes(item_elem, "NotAppl"),
                !.not_offered = IsYes(item_elem, "NotOffered"),
                !.hour_it = IsYes(item_elem, "HourIt"),
                !.lump_sum_item = IsYes(item_elem, "LumpSumItem"),
                !.up_components =
                    [i \in {j \in 1..6 :
                               ~IsNone(Decimal(item_elem, UPCompTags[j]))} |->
                        Val(Decimal(item_elem, UPCompTags[i]))],
                !.up_bkdn = ~IsNone(Find(item_elem, "UPBkdn")),
                !.provis = Text(item_elem, "Provis"),
                !.aln_group_no = Text(item_elem, "ALNGroupNo"),
                !.aln_ser_no = Text(item_elem, "ALNSerNo"),
                !.free_qty = IsYes(item_elem, "FreeQty"),
                !.key_it = IsYes(item_elem, "KeyIt"),
                !.markup_it = IsYes(item_elem, "MarkupIt"),
                !.surcharge_type = IF IsNone(add_pl_it) THEN <<>>
                                   ELSE Text(Val(add_pl_it), "SurchargeType"),
                !.surcharge_refs =
                    SelectSeq([k \in 1..Len(grps) |-> Text(grps[k], "RNoPart")],
                              LAMBDA rno : rno # <<>>),
                !.sum_descr = ~IsNone(Find(item_elem, "SumDescr")),
                !.sub_descriptions =
                    [k \in 1..Len(sds) |->
                        [sub_d_no |-> Text(sds[k], "SubDNo"),
                         qty |-> Decimal(sds[k], "Qty"),
                         qty_spec |-> Text(sds[k], "QtySpec"),
                         qu |-> Text(sds[k], "QU"),
                         description |->
                             IF IsNone(Find(sds[k], "Description")) THEN None
                             ELSE Some(parse_description(
                                          Val(Find(sds[k], "Description"))))]],
                !.ctlg_assignments = ParseCtlgAssigns(item_elem),
                !.qty_splits =
                    [k \in 1..Len(qss) |->
                        Entry(~IsNone(Decimal(qss[k], "Qty")), "qty",
                              Val(Decimal(qss[k], "Qty"))) @@
                        Entry(ParseCtlgAssigns(qss[k]) # <<>>, "ctlg_assigns",
                              ParseCtlgAssigns(qss[k]))],
                !.description = IF IsNone(desc) THEN @
                                ELSE parse_description(Val(desc)),
                !.add_texts = parse_add_texts(item_elem),
                !.bid_comments = ParseComments(item_elem, "BidComm"),
                !.text_compls = ParseComments(item_elem, "TextCompl")]
    IN  ParseReferences(base, item_elem)

\* _parse_markup_item
parse_markup_item(elem) ==
    LET msq == Find(elem, "MarkupSubQty")
        refs == IF IsNone(msq) THEN <<>> ELSE FindAll(Val(msq), "RefItem")
        markup_elem == Find(elem, "Markup")
        desc == Find(elem, "Description")
        base ==
            [NewItem EXCEPT
                !.id = GetAttr(elem, "ID"),
                !.rno_part = GetAttr(elem, "RNoPart"),
                !.is_markup_item = TRUE,
                !.markup_type = Text(elem, "MarkupType"),
                !.markup_sub_qty_refs =
                    SelectSeq([k \in 1..Len(refs) |-> GetAttr(refs[k], "IDRef")],
                              LAMBDA id_ref : id_ref # <<>>),
                !.qty = Decimal(elem, "Qty"),
                !.qu = Text(elem, "QU"),
                !.up = Decimal(elem, "UP"),
                !.it = Decimal(elem, "IT"),
                !.it_markup = Decimal(elem, "ITMarkup"),
                !.has_markup = ~IsNone(markup_elem),
                !.has_markup_value = ~IsNone(markup_elem),
                !.markup_value = IF IsNone(markup_elem) THEN None
                                 ELSE Decimal(elem, "Markup"),
                !.pred_qty = Decimal(elem, "PredQty"),
                !.ctlg_assignments = ParseCtlgAssigns(elem),
                !.description = IF IsNone(desc) THEN @
                                ELSE parse_description(Val(desc)),
                !.add_texts = parse_add_texts(elem)]
    IN  ParseReferences(base, elem)

\* _parse_totals: every attribute is assigned, the undeclared ones too
parse_totals(totals_elem) ==
    LET total == Decimal(totals_elem, "Total")
    IN  [total |-> IF ~IsNone(total) /\ Val(total) # 0 THEN Val(total) ELSE 0,
         discount_pcnt |-> Decimal(totals_elem, "DiscountPcnt"),
         discount_amt |-> Decimal(totals_elem, "DiscountAmt"),
         tot_after_disc |-> Decimal(totals_elem, "TotAfterDisc"),
         total_net |-> Decimal(totals_elem, "TotalNet"),
         vat |-> Decimal(totals_elem, "VAT"),
         vat_amount |-> Decimal(totals_elem, "VATAmount"),
         total_gross |-> Decimal(totals_elem, "TotalGross"),
         total_lsum |-> Decimal(totals_elem, "TotalLSUM")]

\* _parse_category and _parse_categories: the Item children are parsed
\* first, the MarkupItem children after them
RECURSIVE parse_category(_)
parse_category(ctgy_elem) ==
    LET lbl == Find(ctgy_elem, "LblTx")
        exec_descr == FindPath(ctgy_elem, <<"ExecDescr", "Text">>)
        inner_body == Find(ctgy_elem, "BoQBody")
        itemlist == IF IsNone(inner_body) THEN None
                    ELSE Find(Val(inner_body), "Itemlist")
        totals_elem == Find(ctgy_elem, "Totals")
        sub_elems == IF IsNone(inner_body) THEN <<>>
                     ELSE FindAll(Val(inner_body), "BoQCtgy")
        item_elems == IF IsNone(itemlist) THEN <<>>
                      ELSE FindAll(Val(itemlist), "Item")
        markup_elems == IF IsNone(itemlist) THEN <<>>
                        ELSE FindAll(Val(itemlist), "MarkupItem")
    IN  [NewBoQCategory EXCEPT
            !.id = GetAttr(ctgy_elem, "ID"),
            !.rno_part = GetAttr(ctgy_elem, "RNoPart"),
            !.label = IF IsNone(lbl) THEN @ ELSE extract_plain_text(Val(lbl)),
            !.label_html = IF IsNone(lbl) THEN @ ELSE extract_html(Val(lbl)),
            !.aln_b_group_no = Text(ctgy_elem, "ALNBGroupNo"),
            !.aln_b_ser_no = Text(ctgy_elem, "ALNBSerNo"),
            !.exec_descr = IF IsNone(exec_descr) THEN @
                           ELSE extract_plain_text(Val(exec_descr)),
            !.exec_descr_html = IF IsNone(exec_descr) THEN @
                                ELSE extract_html(Val(exec_descr)),
            !.subcategories =
                [k \in 1..Len(sub_elems) |-> parse_category(sub_elems[k])],
            !.remarks_raw = IF IsNone(inner_body) THEN @
                            ELSE FindAll(Val(inner_body), "Remark"),
            !.items =
                [k \in 1..Len(item_elems) |-> parse_item(item_elems[k])] \o
                [k \in 1..Len(markup_elems) |->
                    parse_markup_item(markup_elems[k])],
            !.itemlist_remarks_raw = IF IsNone(itemlist) THEN @
                                     ELSE FindAll(Val(itemlist), "Remark"),
            !.perf_descrs_raw = IF IsNone(itemlist) THEN @
                                ELSE FindAll(Val(itemlist), "PerfDescr"),
            !.totals = IF IsNone(totals_elem) THEN None
                       ELSE Some(parse_totals(Val(totals_elem))),
            !.add_texts = parse_add_texts(ctgy_elem)]

\* _parse_boq with _parse_boq_info
parse_boq(root) ==
    LET boq_elem == FindPath(root, <<"Award", "BoQ">>)
        bi == Find(Val(boq_elem), "BoQInfo")
        body == Find(Val(boq_elem), "BoQBody")
        info == IF IsNone(bi) THEN NewBoQ.info
                ELSE [name |-> Text(Val(bi), "Name"),
                      outline_complete |-> Text(Val(bi), "OutlCompl"),
                      totals |-> IF IsNone(Find(Val(bi), "Totals")) THEN None
                                 ELSE Some(parse_totals(
                                              Val(Find(Val(bi), "Totals"))))]
        boq == [NewBoQ EXCEPT !.id = GetAttr(Val(boq_elem), "ID"),
                              !.info = info]
    IN  IF IsNone(boq_elem) THEN None
        ELSE IF IsNone(body) THEN Some(boq)
        ELSE LET cs == FindAll(Val(body), "BoQCtgy")
             IN  Some([id |-> boq.id, info |-> boq.info,
                       categories |-> [k \in 1..Len(cs) |-> parse_category(cs[k])],
                       remarks_raw |-> FindAll(Val(body), "Remark")])

\* the longest run of digits and points at the head of a string: what the
\* group ([\d.]+) takes
RECURSIVE VersionRun(_)
VersionRun(str) ==
    IF str # <<>> /\ (IsDigit(Head(str)) \/ Head(str) = ".")
    THEN <<Head(str)>> \o VersionRun(Tail(str)) ELSE <<>>

\* _NS_PATTERN.match(ns_uri): the pattern has to match at the start of the
\* string and may leave a rest unmatched; None stands for no match
NsPatternMatch(ns_uri) ==
    IF /\ Len(ns_uri) >= 5
       /\ ns_uri[1] = NsHead
       /\ IsDigit(ns_uri[2]) /\ IsDigit(ns_uri[3])
       /\ ns_uri[4] = "/"
       /\ VersionRun(SubSeq(ns_uri, 5, Len(ns_uri))) # <<>>
    THEN Some([dp |-> SubSeq(ns_uri, 2, 3),
               version |-> VersionRun(SubSeq(ns_uri, 5, Len(ns_uri)))])
    ELSE None

\* a from_dp that takes an unknown value for the tender request
from_dp_accepts_any(dp_value) ==
    IF \E phase \in GAEBPhase : NatValue(DPValue(phase)) = dp_value
    THEN [raised |-> FALSE,
          phase |-> CHOOSE phase \in GAEBPhase :
                       NatValue(DPValue(phase)) = dp_value]
    ELSE [raised |-> FALSE, phase |-> "X83"]

\* GAEBPhase.from_dp: the phase with that value, or a ValueError
from_dp(dp_value) ==
    IF \E phase \in GAEBPhase : NatValue(DPValue(phase)) = dp_value
    THEN [raised |-> FALSE,
          phase |-> CHOOSE phase \in GAEBPhase :
                       NatValue(DPValue(phase)) = dp_value]
    ELSE [raised |-> TRUE]

\* whether the root's tag is qualified by a namespace
HasNamespace(root) == \E k \in 1..Len(root.attrib) : root.attrib[k][1] = "xmlns"

\* what detect_phase_and_version does with the match of the pattern
PhaseOfMatch(match) ==
    IF IsNone(match) THEN [raised |-> TRUE]
    ELSE from_dp(NatValue(Val(match).dp))

\* detect_phase_and_version: the phase of the root's namespace, or a
\* ValueError
detect_phase_and_version(root) ==
    IF ~HasNamespace(root) THEN [raised |-> TRUE]
    ELSE PhaseOfMatch(NsPatternMatch(GetAttr(root, "xmlns")))

\* the exception that leaves GAEBReader.read when the phase is not detected
ReadRaised == [error |-> <<"ValueError">>]

\* what GAEBReader.read returns once the phase is detected
ReadProject(detected, root) ==
    IF detected.raised THEN ReadRaised
    ELSE [phase |-> detected.phase, boq |-> parse_boq(root)]

\* GAEBReader.read of a file whose content parses to root; of the project
\* the phase and the BoQ are modelled
read(root) == ReadProject(detect_phase_and_version(root), root)

-----------------------------------------------------------------------------
(* Phase converter, on an object heap so that sharing is observable *)

\* value bounds of the projects the converter is run on
MaxQtySteps == 2

MaxUpSteps == 1

QtyValues == {500 * (2 * k - 1) : k \in 1..MaxQtySteps}

UpValues == {10 * k : k \in 1..MaxUpSteps}

StaleIt == 990

Totals == [total |-> 0]

\* the project under conversion: category 1 ("01") holds item 1 ("0010") and
\* subcategory 2 ("02"), which holds item 2 ("0020")
OrigProject == 1

CopyOffset == 2

ItemPool1 ==
    {[NewItem EXCEPT !.id = <<"it-1">>, !.rno_part = <<"0010">>,
                     !.qty = q, !.qty_tbd = tbd, !.up = u,
                     !.up_components = IF x THEN (2 :> 20) ELSE <<>>,
                     !.discount_pcnt = IF x THEN Some(3000) ELSE None,
                     !.it = t, !.not_offered = no,
                     !.use_calculated_qty = c[1], !.formula = c[2]] :
        q \in {None} \cup {Some(v) : v \in QtyValues},
        tbd \in BOOLEAN,
        u \in {None} \cup {Some(v) : v \in UpValues},
        x \in BOOLEAN,
        t \in {None, Some(StaleIt)},
        no \in BOOLEAN,
        c \in {<<FALSE, <<>>>>, <<TRUE, <<>>>>, <<TRUE, <<"3/2">>>>}}

ItemPool2 ==
    {[NewItem EXCEPT !.id = <<"it-2">>, !.rno_part = <<"0020">>,
                     !.qty = IF b THEN Some(1500) ELSE None,
                     !.up = IF b THEN Some(10) ELSE None,
                     !.it = t, !.not_offered = no] :
        b \in BOOLEAN, t \in {None, Some(StaleIt)}, no \in BOOLEAN}

\* the ids of the objects a project reaches
RECURSIVE CatsOf(_, _)
CatsOf(C, ids) ==
    IF ids = <<>> THEN {}
    ELSE {Head(ids)} \cup CatsOf(C, C[Head(ids)].subcategories)
                     \cup CatsOf(C, Tail(ids))

ProjectCats(P, C, pid) ==
    IF IsNone(P[pid].boq) THEN {} ELSE CatsOf(C, Val(P[pid].boq).categories)

ProjectItems(P, C, pid) ==
    UNION {{C[c].items[k] : k \in 1..Len(C[c].items)} : c \in ProjectCats(P, C, pid)}

\* copy.copy(project) in place of deepcopy: a new project object whose boq,
\* categories and items are the input's own
deepcopy_shallow(P, C, I, pid, off) ==
    [projects |-> (pid + 1) :> P[pid], cats |-> <<>>, items |-> <<>>,
     project |-> pid + 1]

\* copy.deepcopy(project): every object reachable from the project is
\* copied into a fresh object (old id + off), references follow the copies
deepcopy(P, C, I, pid, off) ==
    LET cs == ProjectCats(P, C, pid)
        is == ProjectItems(P, C, pid)
        shift(seq) == [k \in 1..Len(seq) |-> seq[k] + off]
    IN  [projects |-> (pid + 1) :>
            [P[pid] EXCEPT !.boq =
                IF IsNone(@) THEN None
                ELSE Some([Val(@) EXCEPT !.categories = shift(@)])],
         cats |-> [c \in {k + off : k \in cs} |->
            [C[c - off] EXCEPT !.subcategories = shift(@),
                               !.items = shift(@)]],
         items |-> [i \in {k + off : k \in is} |-> I[i - off]],
         project |-> pid + 1]

Warning(kind, item, value) ==
    [kind |-> kind, rno_part |-> item.rno_part, value |-> value]

\* PhaseConverter._convert_item; st is [item, warnings]
StripQuantities(st, source, target) ==
    IF source.has_quantities /\ ~target.has_quantities
    THEN [item |-> [st.item EXCEPT !.qty = None, !.qty_tbd = FALSE],
          warnings |-> IF ~IsNone(st.item.qty)
                       THEN Append(st.warnings,
                                   Warning("Menge", st.item, st.item.qty))
                       ELSE st.warnings]
    ELSE st

\* a price strip that forgets the discount
StripPrices_keeps_discount(st, source, target) ==
    IF source.has_prices /\ ~target.has_prices
    THEN [item |-> [st.item EXCEPT !.up = None, !.up_components = <<>>],
          warnings |-> IF ~IsNone(st.item.up)
                       THEN Append(st.warnings,
                                   Warning("Einheitspreis", st.item, st.item.up))
                       ELSE st.warnings]
    ELSE st

StripPrices(st, source, target) ==
    IF source.has_prices /\ ~target.has_prices
    THEN [item |-> [st.item EXCEPT !.up = None, !.up_components = <<>>,
                                   !.discount_pcnt = None],
          warnings |-> IF ~IsNone(st.item.up)
                       THEN Append(st.warnings,
                                   Warning("Einheitspreis", st.item, st.item.up))
                       ELSE st.warnings]
    ELSE st

StripTotals(st, source, target) ==
    IF source.has_totals /\ ~target.has_totals
    THEN [st EXCEPT !.item.it = None]
    ELSE st

StripNotOffered(st, source, target) ==
    IF source.allows_not_offered /\ ~target.allows_not_offered
    THEN [item |-> [st.item EXCEPT !.not_offered = FALSE],
          warnings |-> IF st.item.not_offered
                       THEN Append(st.warnings,
                                   Warning("Nicht angeboten", st.item, None))
                       ELSE st.warnings]
    ELSE st

\* a recalculation that carries an existing total forward
RecalculateTotals_keeps_it(st, source, target) ==
    IF target.has_totals
    THEN IF ~IsNone(st.item.qty) /\ ~IsNone(st.item.up)
         THEN IF IsNone(st.item.it)
              THEN [st EXCEPT !.item.it = calculate_total(st.item)]
              ELSE st
         ELSE [st EXCEPT !.item.it = None]
    ELSE st

RecalculateTotals(st, source, target) ==
    IF target.has_totals
    THEN IF ~IsNone(st.item.qty) /\ ~IsNone(st.item.up)
         THEN [st EXCEPT !.item.it = calculate_total(st.item)]
         ELSE [st EXCEPT !.item.it = None]
    ELSE st

convert_item(item, source, target, warnings) ==
    LET s0 == [item |-> item, warnings |-> warnings]
        s1 == StripQuantities(s0, source, target)
        s2 == StripPrices(s1, source, target)
        s3 == StripTotals(s2, source, target)
        s4 == StripNotOffered(s3, source, target)
    IN  RecalculateTotals(s4, source, target)

\* the loop "for item in cat.items" of _convert_categories; st is
\* [items (heap), warnings]
RECURSIVE convert_items(_, _, _, _)
convert_items(ids, st, source, target) ==
    IF ids = <<>> THEN st
    ELSE LET r == convert_item(st.items[Head(ids)], source, target, st.warnings)
         IN  convert_items(Tail(ids),
                           [items |-> [st.items EXCEPT ![Head(ids)] = r.item],
                            warnings |-> r.warnings],
                           source, target)

\* a walk that forgets to descend into the subcategories
RECURSIVE convert_categories_flat(_, _, _, _, _)
convert_categories_flat(ids, C, st, source, target) ==
    IF ids = <<>> THEN st
    ELSE convert_categories_flat(Tail(ids), C,
             convert_items(C[Head(ids)].items, st, source, target),
             source, target)

\* PhaseConverter._convert_categories: subcategories first, then the items
RECURSIVE convert_categories(_, _, _, _, _)
convert_categories(ids, C, st, source, target) ==
    IF ids = <<>> THEN st
    ELSE LET cat == C[Head(ids)]
             s1 == convert_categories(cat.subcategories, C, st, source, target)
             s2 == convert_items(cat.items, s1, source, target)
         IN  convert_categories(Tail(ids), C, s2, source, target)

\* PhaseConverter.convert, the identity short-circuit: the input object
\* itself is returned, nothing is copied
convert_same(P, C, I, pid) ==
    [projects |-> P, cats |-> C, items |-> I,
     result |-> [project |-> pid, warnings |-> <<>>]]

\* PhaseConverter.convert, the conversion proper: deep copy, new phase,
\* every item converted, the BoQ totals dropped if the target has none
convert_copy(P, C, I, pid, target_phase) ==
    LET source_rules == get_rules(P[pid].phase)
        target_rules == get_rules(target_phase)
        cp == deepcopy(P, C, I, pid, CopyOffset)
        np == cp.project
        P1 == cp.projects @@ P
        C1 == cp.cats @@ C
        I1 == cp.items @@ I
        P2 == [P1 EXCEPT ![np].phase = target_phase]
        boq == P2[np].boq
        st == IF ~IsNone(boq)
              THEN convert_categories(Val(boq).categories, C1,
                                      [items |-> I1, warnings |-> <<>>],
                                      source_rules, target_rules)
              ELSE [items |-> I1, warnings |-> <<>>]
        strip == ~IsNone(boq) /\ ~target_rules.has_totals
                 /\ ~IsNone(Val(boq).info_totals)
        P3 == IF strip
              THEN [P2 EXCEPT ![np].boq = Some([Val(@) EXCEPT !.info_totals = None])]
              ELSE P2
        w == IF strip THEN Append(st.warnings, Warning("BoQ-Summen", NewItem, None))
             ELSE st.warnings
    IN  [projects |-> P3, cats |-> C1, items |-> st.items,
         result |-> [project |-> np, warnings |-> w]]

\* a converter without the short-circuit
convert_always_copies(P, C, I, pid, target_phase) ==
    convert_copy(P, C, I, pid, target_phase)

\* PhaseConverter.convert: the heaps and the result after the call
convert(P, C, I, pid, target_phase) ==
    IF P[pid].phase = target_phase
    THEN convert_same(P, C, I, pid)
    ELSE convert_copy(P, C, I, pid, target_phase)

-----------------------------------------------------------------------------
(* The converter as a state machine *)

\* the other components, not in use
PSIdle ==
    /\ ps_files = <<>> /\ ps_reference = None
    /\ ps_file_paths = <<>> /\ ps_result = None /\ ps_message = None
    /\ ps_tree = <<>>

CodecIdle ==
    /\ codec_project = None /\ codec_built = None
    /\ codec_file = None /\ codec_read = None /\ codec_opened = None
    /\ codec_sidecar = None

ConvIdle ==
    /\ projects = <<>> /\ cats = <<>> /\ items = <<>>
    /\ conv_call = None /\ conv_result = None

EditIdle ==
    /\ boq_breakdowns = <<>> /\ parent_list = <<>>
    /\ undo_stack = <<>> /\ undo_index = 0 /\ boq_lists = <<>>
    /\ main_project = None /\ app_crashed = FALSE

RecentIdle ==
    /\ recent_settings = <<>> /\ recent_disk = {} /\ recent_log = <<>>

InitConv ==
    /\ \/ /\ \E ph \in GAEBPhase, tot \in {None, Some(Totals)} :
                 projects = OrigProject :>
                     [phase |-> ph,
                      boq |-> Some([info_totals |-> tot, categories |-> <<1>>])]
          /\ cats = (1 :> [rno_part |-> <<"01">>, subcategories |-> <<2>>,
                           items |-> <<1>>])
                 @@ (2 :> [rno_part |-> <<"02">>, subcategories |-> <<>>,
                           items |-> <<2>>])
          /\ \E i1 \in ItemPool1, i2 \in ItemPool2 : items = (1 :> i1) @@ (2 :> i2)
       \/ /\ \E ph \in GAEBPhase :
                 projects = OrigProject :> [phase |-> ph, boq |-> None]
          /\ cats = <<>>
          /\ items = <<>>
    /\ conv_call = None
    /\ conv_result = None
    /\ PSIdle
    /\ CodecIdle
    /\ EditIdle
    /\ RecentIdle

\* PhaseConverter().convert(project, target_phase)
Convert(target_phase) ==
    /\ conv_call = None
    /\ LET r == convert(projects, cats, items, OrigProject, target_phase)
       IN  /\ projects' = r.projects
           /\ cats' = r.cats
           /\ items' = r.items
           /\ conv_result' = Some(r.result)
    /\ conv_call' = Some([project |-> OrigProject, target_phase |-> target_phase])
    /\ UNCHANGED <<ps_vars, codec_vars, edit_vars, recent_vars>>

\* a later edit of the returned project by its holder: the unit of one of
\* its items is set (EditItemPropertyCommand.redo does setattr on the object)
EditResultItem(i) ==
    /\ ~IsNone(conv_result)
    /\ i \in ProjectItems(projects, cats, Val(conv_result).project)
    /\ items[i].qu = <<>>
    /\ items' = [items EXCEPT ![i].qu = <<"m2">>]
    /\ UNCHANGED <<projects, cats, conv_call, conv_result>>
    /\ UNCHANGED <<ps_vars, codec_vars, edit_vars, recent_vars>>

NextConv ==
    \/ \E t \in GAEBPhase : Convert(t)
    \/ \E i \in DOMAIN items : EditResultItem(i)

SpecConv == InitConv /\ [][NextConv]_vars

-----------------------------------------------------------------------------
(* Properties of the converter *)

\* the value of a project: the tree its object graph spells out
RECURSIVE CatValue(_, _, _)
CatValue(C, I, c) ==
    [rno_part |-> C[c].rno_part,
     subcategories |-> [k \in 1..Len(C[c].subcategories) |->
                            CatValue(C, I, C[c].subcategories[k])],
     items |-> [k \in 1..Len(C[c].items) |-> I[C[c].items[k]]]]

ProjectValue(P, C, I, pid) ==
    [phase |-> P[pid].phase,
     boq |-> IF IsNone(P[pid].boq) THEN None
             ELSE Some([info_totals |-> Val(P[pid].boq).info_totals,
                        categories |->
                            [k \in 1..Len(Val(P[pid].boq).categories) |->
                                CatValue(C, I, Val(P[pid].boq).categories[k])]])]

Converted == ~IsNone(conv_result)

ResultProject == Val(conv_result).project

ResultWarnings == Val(conv_result).warnings

SourcePhase == projects[OrigProject].phase

TargetPhase == Val(conv_call).target_phase

ResultItems == ProjectItems(projects, cats, ResultProject)

\* the result is a new object graph: no object of it is an object of the input
SharesNothing(P, C, I, r) ==
    /\ r.project # OrigProject
    /\ ProjectCats(P, C, r.project) \cap ProjectCats(P, C, OrigProject) = {}
    /\ ProjectItems(P, C, r.project) \cap ProjectItems(P, C, OrigProject) = {}

InputUntouched ==
    ProjectValue(projects', cats', items', OrigProject)
        = ProjectValue(projects, cats, items, OrigProject)

\* C4 as stated: for every target phase, convert and later edits of the
\* returned project leave the input project as it was, and the returned
\* project shares no object with the input
C4_AlwaysDeepCopy ==
    [][/\ InputUntouched
       /\ ~IsNone(conv_result') =>
              SharesNothing(projects', cats', items', Val(conv_result'))]_vars

\* C4 amended: for every target phase different from the project's phase,
\* convert and later edits of the returned project leave the input project
\* as it was, and the returned project shares no object with the input
C4_DeepCopyOnPhaseChange ==
    [][(~IsNone(conv_call') /\ Val(conv_call').target_phase # SourcePhase) =>
          /\ InputUntouched
          /\ SharesNothing(projects', cats', items', Val(conv_result'))]_vars

C4_Witness ==
    /\ Converted
    /\ TargetPhase # SourcePhase
    /\ \E i \in ResultItems : items[i].qu = <<"m2">> /\ ~IsNone(items[i - CopyOffset].it)

\* C5: convert(P, P.phase) returns no warnings and the input project
\* itself, unchanged
C5_SamePhaseIsIdentity ==
    [][(IsNone(conv_call) /\ ~IsNone(conv_call')
        /\ Val(conv_call').target_phase = SourcePhase) =>
          /\ Val(conv_result').warnings = <<>>
          /\ Val(conv_result').project = OrigProject
          /\ ProjectValue(projects', cats', items', Val(conv_result').project)
                = ProjectValue(projects, cats, items, OrigProject)]_vars

C5_Witness ==
    /\ Converted
    /\ TargetPhase = SourcePhase
    /\ ResultWarnings = <<>>
    /\ \E i \in ResultItems :
          /\ ~IsNone(items[i].qty) /\ ~IsNone(items[i].up)
          /\ items[i].it = Some(StaleIt)

\* the number of positions of a sequence that satisfy a test
Count(seq, Test(_)) == Cardinality({k \in 1..Len(seq) : Test(seq[k])})

B2N(b) == IF b THEN 1 ELSE 0

\* the sum of f[x] over the x in S
RECURSIVE SumOver(_, _)
SumOver(S, f) ==
    IF S = {} THEN 0
    ELSE LET x == CHOOSE y \in S : TRUE IN f[x] + SumOver(S \ {x}, f)

IsX84ToX81 == Converted /\ SourcePhase = "X84" /\ TargetPhase = "X81"

AllStripped ==
    \A i \in ResultItems :
        /\ IsNone(items[i].qty) /\ IsNone(items[i].up) /\ IsNone(items[i].it)
        /\ ~items[i].not_offered

OrigItems == ProjectItems(projects, cats, OrigProject)

OrigTotals ==
    IF IsNone(projects[OrigProject].boq) THEN None
    ELSE Val(projects[OrigProject].boq).info_totals

\* C6 as stated: X84 -> X81 strips qty, up, it and not_offered of every
\* item, with exactly one warning per stripped value that was non-null
C6_OneWarningPerStrippedValue ==
    IsX84ToX81 =>
        /\ AllStripped
        /\ LET n == [i \in OrigItems |->
                        B2N(~IsNone(items[i].qty)) + B2N(~IsNone(items[i].up))
                        + B2N(~IsNone(items[i].it)) + B2N(items[i].not_offered)]
           IN  Len(ResultWarnings) = SumOver(OrigItems, n)

WarningsOf(kind, rno) ==
    LET t(w) == w.kind = kind /\ w.rno_part = rno
    IN  Count(ResultWarnings, t)

\* C6 amended: X84 -> X81 strips qty, up, it and not_offered of every item
\* at every depth; the warnings are exactly one per non-null quantity, one
\* per non-null unit price, one per set not_offered flag and one for the BoQ
\* totals if present; a stripped it gives no warning
C6_WarningsForQtyUpNotOffered ==
    IsX84ToX81 =>
        /\ AllStripped
        /\ \A i \in OrigItems :
              /\ WarningsOf("Menge", items[i].rno_part) = B2N(~IsNone(items[i].qty))
              /\ WarningsOf("Einheitspreis", items[i].rno_part)
                    = B2N(~IsNone(items[i].up))
              /\ WarningsOf("Nicht angeboten", items[i].rno_part)
                    = B2N(items[i].not_offered)
        /\ LET n == [i \in OrigItems |->
                        B2N(~IsNone(items[i].qty)) + B2N(~IsNone(items[i].up))
                        + B2N(items[i].not_offered)]
           IN  Len(ResultWarnings) = SumOver(OrigItems, n)
                  + B2N(~IsNone(OrigTotals))

C6_Witness ==
    /\ IsX84ToX81
    /\ OrigItems # {}
    /\ ~IsNone(items[2].qty) /\ ~IsNone(items[2].it) /\ items[2].not_offered
    /\ ~IsNone(items[1].up) /\ ~IsNone(items[1].it)
    /\ Len(ResultWarnings) >= 4

TotalsToTotals ==
    /\ Converted
    /\ SourcePhase # TargetPhase
    /\ get_rules(SourcePhase).has_totals
    /\ get_rules(TargetPhase).has_totals

\* C7 as stated: after a conversion between two different totals-capable
\* phases every item with a quantity and a unit price has
\* it = effective quantity x unit price, rounded to 2 decimals
C7_TotalIsEffectiveQtyTimesUp ==
    TotalsToTotals =>
        \A i \in ResultItems :
            (~IsNone(items[i].qty) /\ ~IsNone(items[i].up)) =>
                /\ ~IsNone(get_effective_qty(items[i]))
                /\ items[i].it = Some(MulQuantize(Val(get_effective_qty(items[i])),
                                                  Val(items[i].up)))

\* C7 amended: after such a conversion an item with a stored quantity and a
\* unit price has it = effective quantity x unit price rounded to 2
\* decimals when the effective quantity is defined and it unset when it is
\* not; any other item has it unset; the old it never survives as such
C7_TotalRecomputedOrUnset ==
    TotalsToTotals =>
        \A i \in ResultItems :
            LET eff == get_effective_qty(items[i])
            IN  IF ~IsNone(items[i].qty) /\ ~IsNone(items[i].up) /\ ~IsNone(eff)
                THEN items[i].it = Some(MulQuantize(Val(eff), Val(items[i].up)))
                ELSE IsNone(items[i].it)

C7_Witness ==
    /\ TotalsToTotals
    /\ \E i \in ResultItems :
          /\ items[i - CopyOffset].it = Some(StaleIt)
          /\ items[i].qty = Some(1500) /\ items[i].up = Some(10)
          /\ items[i].it = Some(20)

ItemLegalFor(item, rules) ==
    /\ ~rules.has_quantities => IsNone(item.qty) /\ ~item.qty_tbd
    /\ ~rules.has_prices =>
          IsNone(item.up) /\ item.up_components = <<>> /\ IsNone(item.discount_pcnt)
    /\ ~rules.has_totals => IsNone(item.it)
    /\ ~rules.allows_not_offered => ~item.not_offered

ResultTotals ==
    IF IsNone(projects[ResultProject].boq) THEN None
    ELSE Val(projects[ResultProject].boq).info_totals

Lost(source, target) ==
    [has_quantities |-> ~(source.has_quantities /\ ~target.has_quantities),
     has_prices |-> ~(source.has_prices /\ ~target.has_prices),
     has_totals |-> ~(source.has_totals /\ ~target.has_totals),
     allows_not_offered |->
         ~(source.allows_not_offered /\ ~target.allows_not_offered)]

-----------------------------------------------------------------------------
(* Preisspiegel aggregator, on project trees *)

\* an ordinal joined from the leaf up to the root
FullOz_leaf_first(parent_oz, rno_part) ==
    IF parent_oz # <<>> THEN rno_part \o <<".">> \o parent_oz ELSE rno_part

\* f"{parent_oz}.{rno_part}" if parent_oz else rno_part
FullOz(parent_oz, rno_part) ==
    IF parent_oz # <<>> THEN parent_oz \o <<".">> \o rno_part ELSE rno_part

\* d[k] = v and d.get(k) on a dict
DictSet(d, k, v) == (k :> v) @@ d

DictGet(d, k) == IF k \in DOMAIN d THEN Some(d[k]) ELSE None

\* _collect_items: the subcategories first, then the category's own items
RECURSIVE collect_items(_, _, _)
RECURSIVE CollectSubcategories(_, _, _)
RECURSIVE CollectOwnItems(_, _, _)
collect_items(cat, parent_oz, result) ==
    LET oz == FullOz(parent_oz, cat.rno_part)
    IN  CollectOwnItems(cat.items, oz,
                        CollectSubcategories(cat.subcategories, oz, result))

CollectSubcategories(subs, oz, result) ==
    IF subs = <<>> THEN result
    ELSE CollectSubcategories(Tail(subs), oz, collect_items(Head(subs), oz, result))

CollectOwnItems(its, oz, result) ==
    IF its = <<>> THEN result
    ELSE CollectOwnItems(Tail(its), oz,
                         DictSet(result, FullOz(oz, Head(its).rno_part), Head(its)))

\* _build_item_map
build_item_map(project) ==
    IF IsNone(project.boq) THEN <<>>
    ELSE CollectSubcategories(Val(project.boq).categories, <<>>, <<>>)

\* min, max and sum of a non-empty sequence of Decimals
RECURSIVE SeqSum(_)
SeqSum(seq) == IF seq = <<>> THEN 0 ELSE Head(seq) + SeqSum(Tail(seq))

SeqMin(seq) == CHOOSE m \in {seq[k] : k \in 1..Len(seq)} :
                   \A k \in 1..Len(seq) : m <= seq[k]

SeqMax(seq) == CHOOSE m \in {seq[k] : k \in 1..Len(seq)} :
                   \A k \in 1..Len(seq) : m >= seq[k]

\* an average that cuts the third decimal off
Average_truncated(valid_ups) == 10 * (SeqSum(valid_ups) \div (10 * Len(valid_ups)))

\* (sum(valid_ups) / len(valid_ups)).quantize(Decimal("0.01"))
Average(valid_ups) == 10 * RoundHalfEven(SeqSum(valid_ups), 10 * Len(valid_ups))

\* a column that reports the prices of a position flagged not_offered
BidderColumn_ignores_not_offered(full_oz, ref_qty, bmap) ==
    LET bidder_item == DictGet(bmap, full_oz)
    IN  IF IsNone(bidder_item)
        THEN [up |-> None, tp |-> None, no |-> FALSE]
        ELSE LET up == Val(bidder_item).up
             IN  [up |-> up,
                  tp |-> IF ~IsNone(Val(bidder_item).it) THEN Val(bidder_item).it
                         ELSE IF ~IsNone(up) /\ ~IsNone(ref_qty)
                         THEN Some(MulQuantize(Val(ref_qty), Val(up)))
                         ELSE None,
                  no |-> Val(bidder_item).not_offered]

\* one bidder's entries of an item row (the body of the loop over bidder_maps)
BidderColumn(full_oz, ref_qty, bmap) ==
    LET bidder_item == DictGet(bmap, full_oz)
    IN  IF IsNone(bidder_item)
        THEN [up |-> None, tp |-> None, no |-> FALSE]
        ELSE IF Val(bidder_item).not_offered
        THEN [up |-> None, tp |-> None, no |-> TRUE]
        ELSE LET up == Val(bidder_item).up
             IN  [up |-> up,
                  tp |-> IF ~IsNone(Val(bidder_item).it) THEN Val(bidder_item).it
                         ELSE IF ~IsNone(up) /\ ~IsNone(ref_qty)
                         THEN Some(MulQuantize(Val(ref_qty), Val(up)))
                         ELSE None,
                  no |-> FALSE]

\* the values of the entries of a sequence of Optionals that are not None
RECURSIVE Present(_)
Present(seq) ==
    IF seq = <<>> THEN <<>>
    ELSE IF IsNone(Head(seq)) THEN Present(Tail(seq))
    ELSE <<Val(Head(seq))>> \o Present(Tail(seq))

\* _build_item_row
build_item_row(full_oz, ref_item, bidder_maps) ==
    LET ref_qty == ref_item.qty
        col == [i \in 1..Len(bidder_maps) |->
                    BidderColumn(full_oz, ref_qty, bidder_maps[i])]
        unit_prices == [i \in 1..Len(bidder_maps) |-> col[i].up]
        valid_ups == Present(unit_prices)
    IN  [kind |-> "item",
         oz |-> full_oz,
         short_text |-> ref_item.description.outline_text,
         qty |-> ref_qty,
         qu |-> ref_item.qu,
         unit_prices |-> unit_prices,
         total_prices |-> [i \in 1..Len(bidder_maps) |-> col[i].tp],
         not_offered |-> [i \in 1..Len(bidder_maps) |-> col[i].no],
         min_up |-> IF valid_ups # <<>> THEN Some(SeqMin(valid_ups)) ELSE None,
         max_up |-> IF valid_ups # <<>> THEN Some(SeqMax(valid_ups)) ELSE None,
         avg_up |-> IF valid_ups # <<>> THEN Some(Average(valid_ups)) ELSE None]

\* one bidder's contribution of one reference item to a category total
\* (the inner loop of _compute_category_totals): None if it adds nothing
ItemContribution(full_oz, ref_qty, bmap) ==
    LET bidder_item == DictGet(bmap, full_oz)
    IN  IF IsNone(bidder_item) \/ Val(bidder_item).not_offered THEN None
        ELSE IF ~IsNone(Val(bidder_item).it) THEN Val(bidder_item).it
        ELSE IF ~IsNone(Val(bidder_item).up) /\ ~IsNone(ref_qty)
        THEN Some(MulQuantize(Val(ref_qty), Val(Val(bidder_item).up)))
        ELSE None

\* an accumulation that puts the value in the place of the total
AddInto_overwrites(acc, xs) ==
    [totals |-> [i \in 1..Len(xs) |->
                    IF IsNone(xs[i]) THEN acc.totals[i] ELSE Val(xs[i])],
     has_any |-> [i \in 1..Len(xs) |-> acc.has_any[i] \/ ~IsNone(xs[i])]]

\* totals[i] += x, has_any[i] = True for every bidder i with a value in xs
AddInto(acc, xs) ==
    [totals |-> [i \in 1..Len(xs) |->
                    IF IsNone(xs[i]) THEN acc.totals[i]
                    ELSE acc.totals[i] + Val(xs[i])],
     has_any |-> [i \in 1..Len(xs) |-> acc.has_any[i] \/ ~IsNone(xs[i])]]

\* _compute_category_totals
RECURSIVE compute_category_totals(_, _, _)
RECURSIVE TotalsOfItems(_, _, _, _)
RECURSIVE TotalsOfSubcategories(_, _, _, _)
compute_category_totals(cat, oz, bidder_maps) ==
    LET n == Len(bidder_maps)
        a0 == [totals |-> [i \in 1..n |-> 0], has_any |-> [i \in 1..n |-> FALSE]]
        a1 == TotalsOfItems(cat.items, oz, bidder_maps, a0)
        a2 == TotalsOfSubcategories(cat.subcategories, oz, bidder_maps, a1)
    IN  [i \in 1..n |-> IF a2.has_any[i] THEN Some(a2.totals[i]) ELSE None]

TotalsOfItems(its, oz, bidder_maps, acc) ==
    IF its = <<>> THEN acc
    ELSE LET full_oz == FullOz(oz, Head(its).rno_part)
             xs == [i \in 1..Len(bidder_maps) |->
                        ItemContribution(full_oz, Head(its).qty, bidder_maps[i])]
         IN  TotalsOfItems(Tail(its), oz, bidder_maps, AddInto(acc, xs))

\* a category total that leaves the subcategories out
TotalsOfSubcategories_left_out(subs, oz, bidder_maps, acc) == acc

TotalsOfSubcategories(subs, oz, bidder_maps, acc) ==
    IF subs = <<>> THEN acc
    ELSE LET sub_oz == FullOz(oz, Head(subs).rno_part)
             sub_totals == compute_category_totals(Head(subs), sub_oz, bidder_maps)
         IN  TotalsOfSubcategories(Tail(subs), oz, bidder_maps,
                                   AddInto(acc, sub_totals))

\* a traversal that keeps, per bidder, the total of the last row only
AppendItemRow_keeps_last(st, row) ==
    [rows |-> Append(st.rows, row),
     bidder_totals |->
         [i \in 1..Len(st.bidder_totals) |->
             IF ~IsNone(row.total_prices[i])
             THEN Val(row.total_prices[i])
             ELSE st.bidder_totals[i]]]

\* rows.append(row), and bidder_totals[i] += tp for every total of the row
AppendItemRow(st, row) ==
    [rows |-> Append(st.rows, row),
     bidder_totals |->
         [i \in 1..Len(st.bidder_totals) |->
             IF ~IsNone(row.total_prices[i])
             THEN st.bidder_totals[i] + Val(row.total_prices[i])
             ELSE st.bidder_totals[i]]]

\* _traverse_structure; st is [rows, bidder_totals]
RECURSIVE traverse_structure(_, _, _, _)
RECURSIVE TraverseItems(_, _, _, _)
RECURSIVE traverse_structure_category_last(_, _, _, _)
\* a traversal that emits the row of a category after the rows of its children
traverse_structure_category_last(categories, parent_oz, bidder_maps, st) ==
    IF categories = <<>> THEN st
    ELSE LET cat == Head(categories)
             oz == FullOz(parent_oz, cat.rno_part)
             s2 == traverse_structure_category_last(cat.subcategories, oz,
                                                    bidder_maps, st)
             s3 == TraverseItems(cat.items, oz, bidder_maps, s2)
             cat_row == [kind |-> "category", oz |-> oz, label |-> cat.label,
                         totals |-> compute_category_totals(cat, oz, bidder_maps)]
             s4 == [s3 EXCEPT !.rows = Append(@, cat_row)]
         IN  traverse_structure_category_last(Tail(categories), parent_oz,
                                              bidder_maps, s4)

traverse_structure(categories, parent_oz, bidder_maps, st) ==
    IF categories = <<>> THEN st
    ELSE LET cat == Head(categories)
             oz == FullOz(parent_oz, cat.rno_part)
             cat_row == [kind |-> "category", oz |-> oz, label |-> cat.label,
                         totals |-> <<>>]
             at == Len(st.rows) + 1
             s1 == [st EXCEPT !.rows = Append(@, cat_row)]
             s2 == traverse_structure(cat.subcategories, oz, bidder_maps, s1)
             s3 == TraverseItems(cat.items, oz, bidder_maps, s2)
             cat_totals == compute_category_totals(cat, oz, bidder_maps)
             s4 == [s3 EXCEPT !.rows[at].totals = cat_totals]
         IN  traverse_structure(Tail(categories), parent_oz, bidder_maps, s4)

TraverseItems(its, oz, bidder_maps, st) ==
    IF its = <<>> THEN st
    ELSE TraverseItems(Tail(its), oz, bidder_maps,
             AppendItemRow(st, build_item_row(FullOz(oz, Head(its).rno_part),
                                              Head(its), bidder_maps)))

\* fp.rsplit("/", 1)[-1].rsplit("\\", 1)[-1]
RECURSIVE BaseName(_)
BaseName(fp) ==
    IF \E k \in 1..Len(fp) : fp[k] \in {"/", "\\"}
    THEN BaseName(Tail(fp))
    ELSE fp

\* what GAEBReader.read(fp) gives for a file that does not parse: it raises
ReadFailed == [error |-> <<"XMLSyntaxError">>]

Failed(r) == HasAttr(r, "error")

\* create_preisspiegel where every read succeeds; files[fp] is what
\* GAEBReader.read(fp) gives
Aggregate(reference, bidder_files, files) ==
    LET n == Len(bidder_files)
        name(fp) == IF files[fp].contractor_name1 # <<>>
                    THEN files[fp].contractor_name1
                    ELSE BaseName(fp)
        bidder_maps == [i \in 1..n |-> build_item_map(files[bidder_files[i]])]
        s0 == [rows |-> <<>>, bidder_totals |-> [i \in 1..n |-> 0]]
        st == IF ~IsNone(reference.boq)
              THEN traverse_structure(Val(reference.boq).categories, <<>>,
                                      bidder_maps, s0)
              ELSE s0
    IN  [project_name |-> reference.prj_info_name,
         bidders |-> [i \in 1..n |->
                         [name |-> name(bidder_files[i]),
                          file_path |-> bidder_files[i]]],
         rows |-> st.rows,
         grand_totals |-> [i \in 1..n |->
                              IF st.bidder_totals[i] # 0
                              THEN Some(st.bidder_totals[i]) ELSE None]]

\* a create_preisspiegel that leaves out the files that cannot be read
create_preisspiegel_skips_unreadable(reference, bidder_files, files) ==
    [raised |-> FALSE,
     spiegel |-> Aggregate(reference,
                           SelectSeq(bidder_files, LAMBDA fp : ~Failed(files[fp])),
                           files)]

\* create_preisspiegel: reader.read(fp) is called outside any try, so the
\* first file that fails to read ends the call with its exception
create_preisspiegel(reference, bidder_files, files) ==
    IF \E i \in 1..Len(bidder_files) : Failed(files[bidder_files[i]])
    THEN [raised |-> TRUE]
    ELSE [raised |-> FALSE, spiegel |-> Aggregate(reference, bidder_files, files)]

-----------------------------------------------------------------------------
(* The Preisspiegel dialog as a state machine *)

MaxBidders == 2

FileNames == <<"a.x84", "b.x84", "c.x84", "d.x84">>

\* the paths the file dialog can return
PathOf(k) ==
    IF k = 1 THEN <<"angebote", "/", FileNames[1]>>
    ELSE IF k = 2 THEN <<"C:", "\\", "angebote", "\\", FileNames[2]>>
    ELSE <<FileNames[k]>>

Paths == {PathOf(k) : k \in 1..MaxBidders}

PSItem(rno_part, qty, up, it, not_offered) ==
    [NewItem EXCEPT !.rno_part = rno_part, !.qty = qty, !.up = up, !.it = it,
                                 !.not_offered = not_offered,
                                 !.qu = <<"m2">>]

PSCategory(rno_part, label, subcategories, its) ==
    [rno_part |-> rno_part, label |-> label,
     subcategories |-> subcategories, items |-> its]

PSProject(name, contractor_name1, boq) ==
    [prj_info_name |-> name, contractor_name1 |-> contractor_name1, boq |-> boq]

\* category "01" > subcategory "02" > item "0010", and items of "01" itself
PSBoQ(its, sub_item) ==
    Some([categories |->
        <<PSCategory(<<"01">>, <<"Rohbau">>,
                     <<PSCategory(<<"02">>, <<"Mauerwerk">>, <<>>, <<sub_item>>)>>,
                     its)>>])

\* the same with a second root category "03", which holds its_03
PSBoQ2(its, sub_item, its_03) ==
    Some([categories |->
        Val(PSBoQ(its, sub_item)).categories \o
        <<PSCategory(<<"03">>, <<"Ausbau">>, <<>>, its_03)>>])

RefQtys == {None, Some(1500)}

\* the reference projects: the quantity of position 01.0010 varies; the
\* second root category "03" holds positions 03.0010 and 03.0020
ReferenceProjects ==
    {PSProject(<<"Neubau">>, <<>>,
               PSBoQ2(<<PSItem(<<"0010">>, q, None, None, FALSE)>>,
                      PSItem(<<"0010">>, Some(500), None, None, FALSE),
                      <<PSItem(<<"0010">>, Some(1000), None, None, FALSE),
                        PSItem(<<"0020">>, Some(1000), None, None, FALSE)>>)) :
        q \in RefQtys}
    \cup {PSProject(<<"Neubau">>, <<>>, None)}

\* what a bidder may have at position 01.0010: nothing, or an item; the
\* last one is a deduction of 0.01, as much as position 01.02.0010 costs
BidderItemLists ==
    {<<>>,
     <<PSItem(<<"0010">>, Some(500), Some(20), Some(StaleIt), TRUE)>>,
     <<PSItem(<<"0010">>, Some(500), None, None, FALSE)>>,
     <<PSItem(<<"0010">>, Some(500), Some(10), None, FALSE)>>,
     <<PSItem(<<"0010">>, Some(500), Some(20), Some(StaleIt), FALSE)>>,
     <<PSItem(<<"0010">>, Some(500), None, Some(-10), FALSE)>>}

\* the projects the reader can give for a bidder file; the bidder without
\* position 01.0010 is the one that offers the positions of "03"
BidderProjects ==
    {PSProject(<<"Neubau">>, IF its = <<>> THEN <<>> ELSE <<"Bau", " ", "AG">>,
               IF its = <<>>
               THEN PSBoQ2(its, PSItem(<<"0010">>, Some(500), Some(20), None, FALSE),
                           <<PSItem(<<"0010">>, Some(1000), Some(30), None, FALSE),
                             PSItem(<<"0020">>, Some(1000), None, Some(0), FALSE)>>)
               ELSE PSBoQ(its, PSItem(<<"0010">>, Some(500), Some(20), None, FALSE))) :
        its \in BidderItemLists}
    \cup {PSProject(<<>>, <<>>, None)}

\* BoQTreeModel._build_category_node: a node is [data, node_type, children],
\* the subcategories' nodes come before the items' nodes
RECURSIVE build_category_node(_)
build_category_node(cat) ==
    [data |-> cat, node_type |-> "category",
     children |->
         [k \in 1..Len(cat.subcategories) |->
             build_category_node(cat.subcategories[k])] \o
         [k \in 1..Len(cat.items) |->
             [data |-> cat.items[k], node_type |-> "item", children |-> <<>>]]]

\* BoQTreeModel.set_project with _build_tree: the root nodes
set_project(project) ==
    IF ~IsNone(project.boq)
    THEN [k \in 1..Len(Val(project.boq).categories) |->
             build_category_node(Val(project.boq).categories[k])]
    ELSE <<>>

\* BoQTreeModel.data for the display role, columns 0 (OZ) and 1
\* (Beschreibung); the cells of the other columns are not modelled
data(node, col) ==
    IF node.node_type = "category"
    THEN (IF col = 0 THEN Some(node.data.rno_part)
          ELSE IF col = 1 THEN Some(node.data.label) ELSE None)
    ELSE (IF col = 0 THEN Some(node.data.rno_part)
          ELSE IF col = 1 THEN Some(node.data.description.outline_text)
          ELSE None)

InitPS ==
    /\ ps_files \in [Paths -> BidderProjects \cup {ReadFailed}]
    /\ ps_reference \in {Some(p) : p \in ReferenceProjects}
    /\ ps_file_paths = <<>>
    /\ ps_result = None
    /\ ps_message = None
    /\ ps_tree = set_project(Val(ps_reference))
    /\ ConvIdle
    /\ CodecIdle
    /\ EditIdle
    /\ RecentIdle

\* the loop of _on_add_files: a path is appended unless it is listed already
RECURSIVE AddPaths(_, _)
AddPaths(file_paths, paths) ==
    IF paths = <<>> THEN file_paths
    ELSE AddPaths(IF \E k \in 1..Len(file_paths) : file_paths[k] = Head(paths)
                  THEN file_paths
                  ELSE Append(file_paths, Head(paths)),
                  Tail(paths))

\* what the file dialog returns: one path or two, in some order
PickedPaths == {<<p>> : p \in Paths} \cup {<<p, q>> : p, q \in Paths}

on_add_files(paths) ==
    /\ ps_file_paths' = AddPaths(ps_file_paths, paths)
    /\ ps_message' = None
    /\ UNCHANGED <<ps_files, ps_reference, ps_result, ps_tree>>
    /\ UNCHANGED <<conv_vars, codec_vars, edit_vars, recent_vars>>

\* row is the current row of the list widget, which lists _file_paths
on_remove_file(row) ==
    /\ row \in 1..Len(ps_file_paths)
    /\ ps_file_paths' = [k \in 1..(Len(ps_file_paths) - 1) |->
                            IF k < row THEN ps_file_paths[k]
                            ELSE ps_file_paths[k + 1]]
    /\ ps_message' = None
    /\ UNCHANGED <<ps_files, ps_reference, ps_result, ps_tree>>
    /\ UNCHANGED <<conv_vars, codec_vars, edit_vars, recent_vars>>

\* the try of _on_create around r, what create_preisspiegel gave: an
\* exception is shown and leaves _spiegel as it was
Created(r) ==
    /\ ps_result' = IF r.raised THEN ps_result ELSE Some(r.spiegel)
    /\ ps_message' = IF r.raised THEN Some("critical") ELSE None

\* the export button is enabled exactly when _spiegel is set
on_create ==
    /\ IF ps_file_paths = <<>>
       THEN ps_message' = Some("information") /\ ps_result' = ps_result
       ELSE Created(create_preisspiegel(Val(ps_reference),
                                        ps_file_paths, ps_files))
    /\ UNCHANGED <<ps_files, ps_reference, ps_file_paths, ps_tree>>
    /\ UNCHANGED <<conv_vars, codec_vars, edit_vars, recent_vars>>

NextPS ==
    \/ \E paths \in PickedPaths : on_add_files(paths)
    \/ \E row \in 1..MaxBidders : on_remove_file(row)
    \/ on_create

SpecPS == InitPS /\ [][NextPS]_vars

-----------------------------------------------------------------------------
(* Properties of the Preisspiegel *)

\* the (ordinal, item) pairs of a category, read off the tree
RECURSIVE OrdinalPairs(_, _)
OrdinalPairs(cat, parent_oz) ==
    LET oz == FullOz(parent_oz, cat.rno_part)
    IN  {<<FullOz(oz, cat.items[k].rno_part), cat.items[k]>> :
            k \in 1..Len(cat.items)}
        \cup UNION {OrdinalPairs(cat.subcategories[k], oz) :
                        k \in 1..Len(cat.subcategories)}

\* the items a project has at an ordinal
ItemsAt(project, oz) ==
    IF IsNone(project.boq) THEN {}
    ELSE LET cs == Val(project.boq).categories
             pairs == UNION {OrdinalPairs(cs[k], <<>>) : k \in 1..Len(cs)}
         IN  {p[2] : p \in {q \in pairs : q[1] = oz}}

\* the item rows of the Preisspiegel shown, and its bidder columns
ItemRows ==
    IF IsNone(ps_result) THEN {}
    ELSE {Val(ps_result).rows[k] : k \in
             {j \in 1..Len(Val(ps_result).rows) :
                 Val(ps_result).rows[j].kind = "item"}}

Bidders == IF IsNone(ps_result) THEN {} ELSE 1..Len(Val(ps_result).bidders)

BidderProject(i) == ps_files[Val(ps_result).bidders[i].file_path]

\* the column a bidder's items bs at an ordinal (none or one) give against
\* the reference item r
ExpectedColumn(bs, r) ==
    IF bs = {} THEN [up |-> None, tp |-> None, no |-> FALSE]
    ELSE LET b == CHOOSE x \in bs : TRUE
         IN  IF b.not_offered THEN [up |-> None, tp |-> None, no |-> TRUE]
             ELSE [up |-> b.up,
                   tp |-> IF b.it # None THEN b.it
                          ELSE IF b.up # None /\ r.qty # None
                          THEN Some(10 * RoundHalfEven(Val(r.qty) * Val(b.up), 10000))
                          ELSE None,
                   no |-> FALSE]

\* C9: in every item row and for every bidder, an absent item gives
\* (None, None, not-offered false), an item flagged not_offered gives
\* (None, None, not-offered true) whatever up or it it carries, and any other
\* item gives its up and, as total, its it if set, else reference quantity
\* times up rounded to 2 decimals if both are set, else None
C9_ItemRowPerBidder ==
    \A row \in ItemRows : \A i \in Bidders :
        /\ ItemsAt(Val(ps_reference), row.oz) # {}
        /\ \A r \in ItemsAt(Val(ps_reference), row.oz) :
            LET e == ExpectedColumn(ItemsAt(BidderProject(i), row.oz), r)
            IN  /\ row.unit_prices[i] = e.up
                /\ row.total_prices[i] = e.tp
                /\ row.not_offered[i] = e.no

\* a row where one bidder's item is flagged not_offered although it carries
\* an up and an it, and another bidder's total is computed from the
\* reference quantity with rounding (1.500 * 0.01 = 0.015 gives 0.02)
C9_Witness ==
    \E row \in ItemRows : \E i, j \in Bidders :
        /\ \E b \in ItemsAt(BidderProject(i), row.oz) :
               b.not_offered /\ b.up # None /\ b.it # None
        /\ row.not_offered[i]
        /\ \E b \in ItemsAt(BidderProject(j), row.oz) :
               ~b.not_offered /\ b.it = None /\ b.up = Some(10)
        /\ row.qty = Some(1500)
        /\ row.total_prices[j] = Some(20)

\* the bidders with a unit price in a row
Priced(row) == {i \in Bidders : row.unit_prices[i] # None}

\* C10: in every item row min_up, max_up and avg_up are the minimum, the
\* maximum and the mean rounded to 2 decimals (ties to even) of the
\* non-null unit prices of the row, and all three are None if there is none
C10_StatisticsOverPricedBidders ==
    \A row \in ItemRows :
        LET S == Priced(row)
            n == Cardinality(S)
            up == [i \in S |-> Val(row.unit_prices[i])]
            sum == SumOver(S, up)
        IN  IF S = {}
            THEN row.min_up = None /\ row.max_up = None /\ row.avg_up = None
            ELSE /\ row.min_up # None /\ row.max_up # None /\ row.avg_up # None
                 /\ \E i \in S : up[i] = Val(row.min_up)
                 /\ \A i \in S : up[i] >= Val(row.min_up)
                 /\ \E i \in S : up[i] = Val(row.max_up)
                 /\ \A i \in S : up[i] <= Val(row.max_up)
                 /\ \E q \in 0..sum :
                        /\ Val(row.avg_up) = 10 * q
                        /\ LET d == 10 * q * n - sum
                               dist == IF d < 0 THEN -d ELSE d
                           IN  \/ 2 * dist < 10 * n
                               \/ 2 * dist = 10 * n /\ q % 2 = 0

\* a row with the unit prices 0.01 and 0.02, whose mean 0.015 is reported
\* as 0.02
C10_Witness ==
    \E row \in ItemRows :
        /\ {Val(row.unit_prices[i]) : i \in Priced(row)} = {10, 20}
        /\ Cardinality(Priced(row)) = 2
        /\ row.avg_up = Some(20)

\* the sum of a bidder's totals over the item rows of the Preisspiegel shown
RowTotalSum(i) ==
    LET rows == Val(ps_result).rows
        at == {k \in 1..Len(rows) :
                  rows[k].kind = "item" /\ rows[k].total_prices[i] # None}
    IN  SumOver(at, [k \in at |-> Val(rows[k].total_prices[i])])

\* C11: for every bidder the grand total is the sum of the bidder's total
\* prices over all item rows, rows without a total adding nothing, and it
\* is None instead of 0.00 when that sum is zero
C11_GrandTotalIsSumOfRows ==
    \A i \in Bidders :
        Val(ps_result).grand_totals[i] =
            IF RowTotalSum(i) = 0 THEN None ELSE Some(RowTotalSum(i))

\* one bidder whose two rows add up to 0.03, and another whose rows have
\* totals that cancel (0.01 - 0.01), reported as None
C11_Witness ==
    \E i, j \in Bidders :
        /\ Cardinality({row \in ItemRows : row.total_prices[i] # None}) = 2
        /\ Val(ps_result).grand_totals[i] = Some(30)
        /\ \E row \in ItemRows : row.total_prices[j] = Some(-10)
        /\ \E row \in ItemRows : row.total_prices[j] = Some(10)
        /\ Val(ps_result).grand_totals[j] = None

\* the listed paths whose file cannot be read
Unreadable == {k \in 1..Len(ps_file_paths) : Failed(ps_files[ps_file_paths[k]])}

\* C12: while a listed bidder file cannot be read no step gives the dialog a
\* new Preisspiegel, and a Preisspiegel that a step does give has exactly
\* the listed files as its bidder columns, in order, each of them read
C12_UnreadableFileFailsTheWhole ==
    [][/\ Unreadable # {} => ps_result' = ps_result
       /\ ps_result' # ps_result =>
              /\ ps_result' # None
              /\ [k \in 1..Len(Val(ps_result').bidders) |->
                     Val(ps_result').bidders[k].file_path] = ps_file_paths
              /\ \A k \in 1..Len(ps_file_paths) :
                     ~Failed(ps_files[ps_file_paths[k]])]_vars

\* the error box shown after "create" with two files listed, one readable
\* and one not, while the dialog still has no Preisspiegel
C12_Witness ==
    /\ ps_message = Some("critical")
    /\ Unreadable # {}
    /\ Unreadable # 1..Len(ps_file_paths)
    /\ ps_result = None

\* the node a model index stands for: path holds the row numbers from a root
\* node down to the node
RECURSIVE NodeAt(_, _)
NodeAt(nodes, path) ==
    IF Len(path) = 1 THEN nodes[path[1]]
    ELSE NodeAt(nodes[path[1]].children, Tail(path))

\* the indexes of a tree in the order the view lists them (expanded)
RECURSIVE Preorder(_, _)
Preorder(nodes, prefix) ==
    Flatten([k \in 1..Len(nodes) |->
                <<prefix \o <<k>>>> \o
                Preorder(nodes[k].children, prefix \o <<k>>)])

\* the OZ cells on the way from a root node down to a node, joined by dots
RECURSIVE JoinedCells(_, _)
JoinedCells(nodes, path) ==
    IF Len(path) = 1 THEN Val(data(nodes[path[1]], 0))
    ELSE Val(data(nodes[path[1]], 0)) \o <<".">> \o
         JoinedCells(nodes[path[1]].children, Tail(path))

\* C13 as stated: the OZ cell the tree shows for a node is the full ordinal
\* the Preisspiegel has for it, row by row
C13_TreeShowsFullOrdinal ==
    ps_result # None =>
        LET shown == Preorder(ps_tree, <<>>)
            rows == Val(ps_result).rows
        IN  /\ Len(rows) = Len(shown)
            /\ \A k \in 1..Len(rows) :
                   data(NodeAt(ps_tree, shown[k]), 0) = Some(rows[k].oz)

\* C13: the ordinal of every Preisspiegel row is the dot-join, root to leaf,
\* of the rno_part values down to its category or item; the tree shows in
\* its OZ cell each node's own rno_part, so that the row ordinals, in order,
\* are the OZ cells joined along the path to each node; and the key under
\* which a bidder's items are looked up is built the same way
C13_FullOrdinalJoinsTreePath ==
    ps_result # None =>
        LET shown == Preorder(ps_tree, <<>>)
            rows == Val(ps_result).rows
        IN  /\ Len(rows) = Len(shown)
            /\ \A k \in 1..Len(rows) :
                   /\ rows[k].oz = JoinedCells(ps_tree, shown[k])
                   /\ data(NodeAt(ps_tree, shown[k]), 0) =
                          Some(NodeAt(ps_tree, shown[k]).data.rno_part)
            /\ \A i \in Bidders :
                   LET tree == set_project(BidderProject(i))
                       its == {q \in Range(Preorder(tree, <<>>)) :
                                  NodeAt(tree, q).node_type = "item"}
                   IN  DOMAIN build_item_map(BidderProject(i)) =
                           {JoinedCells(tree, q) : q \in its}

\* the row 01.02.0010 of the item shown as 0010 under 02 under 01, with a
\* bidder's price found under that key
C13_Witness ==
    /\ ps_result # None
    /\ \E k \in 1..Len(Val(ps_result).rows) :
           LET row == Val(ps_result).rows[k]
               at == Preorder(ps_tree, <<>>)[k]
           IN  /\ row.kind = "item"
               /\ row.oz = <<"01", ".", "02", ".", "0010">>
               /\ Len(at) = 3
               /\ data(NodeAt(ps_tree, at), 0) = Some(<<"0010">>)
               /\ \E i \in Bidders : row.unit_prices[i] # None

\* the tree of the reference project: the index paths of its nodes in
\* pre-order, every node followed by its subcategories and then its items
RefPaths == Preorder(ps_tree, <<>>)

IsBelow(path, anc) ==
    Len(anc) < Len(path) /\ SubSeq(path, 1, Len(anc)) = anc

\* the item rows that stand for the items of the subtree of the node at anc
ItemRowsBelow(rows, paths, anc) ==
    {j \in 1..Len(rows) : rows[j].kind = "item" /\ IsBelow(paths[j], anc)}

\* the sum of bidder i's total prices over the rows at, None if none of
\* them has a total
TotalOver(rows, at, i) ==
    LET priced == {j \in at : rows[j].total_prices[i] # None}
    IN  IF priced = {} THEN None
        ELSE Some(SumOver(priced, [j \in priced |-> Val(rows[j].total_prices[i])]))

\* C25: the rows are the nodes of the reference tree in pre-order: one
\* category row per category and one item row per item, the row of a
\* category before every row of its subtree, and the rows of its subtree
\* next to one another right after it
C25_RowsArePreorderOfReference ==
    ps_result # None =>
        LET rows == Val(ps_result).rows
            paths == RefPaths
        IN  /\ ps_tree = set_project(Val(ps_reference))
            /\ Len(rows) = Len(paths)
            /\ \A k \in 1..Len(rows) :
                   LET node == NodeAt(ps_tree, paths[k])
                   IN  /\ rows[k].kind = node.node_type
                       /\ rows[k].oz = JoinedCells(ps_tree, paths[k])
                       /\ rows[k].kind = "category" =>
                              rows[k].label = node.data.label
                       /\ rows[k].kind = "item" =>
                              /\ rows[k].qty = node.data.qty
                              /\ rows[k].short_text =
                                     node.data.description.outline_text
            /\ \A k \in 1..Len(rows) :
                   LET below == {j \in 1..Len(rows) : IsBelow(paths[j], paths[k])}
                   IN  below = (k + 1)..(k + Cardinality(below))

\* the rows of a tree of two root categories, the first of them with a
\* subcategory: the second root's row comes after all rows of the first
C25_Witness ==
    /\ ps_result # None
    /\ LET rows == Val(ps_result).rows
       IN  /\ Len(rows) = 7
           /\ rows[1].kind = "category" /\ rows[2].kind = "category"
           /\ rows[3].kind = "item" /\ rows[4].kind = "item"
           /\ rows[5].kind = "category" /\ rows[5].oz = <<"03">>
           /\ rows[7].oz = <<"03", ".", "0020">>

\* C24: for every category row and every bidder the category total is the
\* sum of the bidder's total prices over the item rows of the category's
\* subtree, its own items and those of all nested subcategories, each
\* counted once; it is None when none of these rows has a total
C24_CategoryTotalIsSumOfSubtreeRows ==
    ps_result # None =>
        LET rows == Val(ps_result).rows
            paths == RefPaths
        IN  \A k \in 1..Len(rows) :
                rows[k].kind = "category" =>
                    LET at == ItemRowsBelow(rows, paths, paths[k])
                    IN  \A i \in Bidders :
                            rows[k].totals[i] = TotalOver(rows, at, i)

\* a category whose total for a bidder, 0.03, is made of its own item's
\* 0.02 and the 0.01 of the item of its subcategory
C24_Witness ==
    /\ ps_result # None
    /\ LET rows == Val(ps_result).rows
       IN  \E i \in Bidders :
               /\ Len(rows) >= 4
               /\ rows[1].kind = "category" /\ rows[1].totals[i] = Some(30)
               /\ rows[2].kind = "category" /\ rows[2].totals[i] = Some(10)
               /\ rows[3].total_prices[i] = Some(10)
               /\ rows[4].total_prices[i] = Some(20)

RootCategoryRows(rows, paths) ==
    {k \in 1..Len(rows) : rows[k].kind = "category" /\ Len(paths[k]) = 1}

\* the sum of bidder i's totals over the category rows at, None if none of
\* them has a total
RootTotal(rows, at, i) ==
    LET with == {k \in at : rows[k].totals[i] # None}
    IN  IF with = {} THEN None
        ELSE Some(SumOver(with, [k \in with |-> Val(rows[k].totals[i])]))

\* C30 as stated: for every bidder the grand total is the sum of the totals
\* of the root category rows, and it is None exactly when no root category
\* row has a total for the bidder
C30_GrandTotalIsSumOfRootTotals ==
    ps_result # None =>
        LET rows == Val(ps_result).rows
            roots == RootCategoryRows(rows, RefPaths)
        IN  \A i \in Bidders :
                Val(ps_result).grand_totals[i] = RootTotal(rows, roots, i)

\* C30 amended: for every bidder the grand total is the sum of the totals of
\* the root category rows, except that it is None when that sum is zero as
\* well as when no root category row has a total
C30_GrandTotalIsNonZeroSumOfRootTotals ==
    ps_result # None =>
        LET rows == Val(ps_result).rows
            roots == RootCategoryRows(rows, RefPaths)
        IN  \A i \in Bidders :
                Val(ps_result).grand_totals[i] =
                    IF RootTotal(rows, roots, i) = Some(0) THEN None
                    ELSE RootTotal(rows, roots, i)

\* two root category rows with totals 0.01 and 0.03 for a bidder whose grand
\* total is 0.04, and a bidder whose only root total is 0.00 and whose grand
\* total is None
C30_Witness ==
    /\ ps_result # None
    /\ LET rows == Val(ps_result).rows
           roots == RootCategoryRows(rows, RefPaths)
       IN  /\ Cardinality(roots) = 2
           /\ \E i, j \in Bidders :
                  /\ rows[1].totals[i] = Some(10)
                  /\ rows[5].totals[i] = Some(30)
                  /\ Val(ps_result).grand_totals[i] = Some(40)
                  /\ RootTotal(rows, roots, j) = Some(0)
                  /\ Val(ps_result).grand_totals[j] = None

-----------------------------------------------------------------------------
(* Editing, saving and reloading a project, as a state machine *)

\* how many fields of the item an editing session populates
MaxPopulated == 2

\* _collect_formulas: the entry of every item that has a formula or
\* calculates its quantity, by item id
RECURSIVE CollectItemFormulas(_, _)
CollectItemFormulas(its, out) ==
    IF its = <<>> THEN out
    ELSE CollectItemFormulas(Tail(its),
            IF Head(its).formula # <<>> \/ Head(its).use_calculated_qty
            THEN DictSet(out, Head(its).id,
                         [formula |-> Head(its).formula,
                          use_calculated_qty |-> Head(its).use_calculated_qty])
            ELSE out)

RECURSIVE collect_formulas(_, _)
collect_formulas(categories, out) ==
    IF categories = <<>> THEN out
    ELSE collect_formulas(Tail(categories),
            collect_formulas(Head(categories).subcategories,
                CollectItemFormulas(Head(categories).items, out)))

\* what save_formula_metadata leaves at the sidecar path for the entries
\* collected: no file, or the JSON document
SidecarFor(items_data) ==
    IF DOMAIN items_data = {} THEN None
    ELSE Some([version |-> 1, items |-> items_data])

\* save_formula_metadata(project, gaeb_path); sidecar is what the sidecar
\* path held before
save_formula_metadata(project, sidecar) ==
    IF IsNone(project.boq) THEN sidecar
    ELSE SidecarFor(collect_formulas(Val(project.boq).categories, <<>>))

\* _apply_formulas
ApplyToItem(item, items_data) ==
    IF item.id \in DOMAIN items_data
    THEN [item EXCEPT !.formula = items_data[item.id].formula,
                      !.use_calculated_qty =
                          items_data[item.id].use_calculated_qty]
    ELSE item

RECURSIVE apply_formulas(_, _)
apply_formulas(categories, items_data) ==
    [c \in 1..Len(categories) |->
        [categories[c] EXCEPT
            !.items = [k \in 1..Len(@) |-> ApplyToItem(@[k], items_data)],
            !.subcategories = apply_formulas(@, items_data)]]

\* load_formula_metadata(project, gaeb_path)
load_formula_metadata(project, sidecar) ==
    IF IsNone(sidecar) \/ IsNone(project.boq) THEN project
    ELSE [project EXCEPT !.boq[1].categories =
             apply_formulas(@, Val(sidecar).items)]

\* a project file with one category "01" whose Itemlist holds the given
\* positions; the root carries the given attributes
ProjectFile(root_attrib, dp, positions) ==
    Element("GAEB", root_attrib, None,
        <<SubNode("Award",
            <<Sub("DP", dp),
              Element("BoQ", <<<<"ID", <<"boq-1">>>>>>, None,
                <<SubNode("BoQInfo", <<Sub("Name", <<"Neubau">>),
                                       Sub("OutlCompl", <<"AllTxt">>)>>),
                  SubNode("BoQBody",
                    <<Element("BoQCtgy",
                              <<<<"ID", <<"cat-1">>>>, <<"RNoPart", <<"01">>>>>>,
                              None,
                        <<SubNode("LblTx",
                                  <<SubNode("p", <<Sub("span", <<"Rohbau">>)>>)>>),
                          SubNode("BoQBody",
                            <<SubNode("Itemlist", positions)>>)>>)>>)>>)>>)>>)

\* the xmlns declaration of a root
Xmlns(ns_uri) == <<<<"xmlns", ns_uri>>>>

\* the k-th position of an Itemlist: an Item or MarkupItem element
PositionIds == <<"it-1", "it-2", "it-3">>

PositionOrdinals == <<"0010", "0020", "0030">>

Position(kind, k, kids) ==
    Element(kind, <<<<"ID", <<PositionIds[k]>>>>,
                   <<"RNoPart", <<PositionOrdinals[k]>>>>>>, None, kids)

\* a project file with one category "01" holding one bare position of the
\* given element kind
SampleFile(phase, kind) ==
    ProjectFile(Xmlns(get_namespace(phase)), DPValue(phase),
                <<Position(kind, 1, <<>>)>>)

ItemKinds == {"Item", "MarkupItem"}

\* the project ProjectController.new_project builds, after one category with
\* one position was added to it
MemoryProject(phase, kind) ==
    [phase |-> phase,
     boq |-> Some([NewBoQ EXCEPT
                !.id = uuid4,
                !.info.name = <<"Neubau">>,
                !.categories =
                    <<[NewBoQCategory EXCEPT
                          !.id = <<"cat-1">>, !.rno_part = <<"01">>,
                          !.label = <<"Rohbau">>,
                          !.items = <<[NewItem EXCEPT
                                          !.id = <<"it-1">>,
                                          !.rno_part = <<"0010">>,
                                          !.is_markup_item = kind = "MarkupItem"]>>]>>])]

\* the value an edit gives to each property of an item
FieldValue ==
    [qty |-> Some(1500), qty_tbd |-> TRUE, qu |-> <<"m2">>, up |-> Some(20),
     up_components |-> (2 :> 20), discount_pcnt |-> Some(5000),
     it |-> Some(30), vat |-> Some(19000),
     not_appl |-> TRUE, not_offered |-> TRUE, hour_it |-> TRUE,
     lump_sum_item |-> TRUE, pred_qty |-> Some(500),
     description |-> [NewItemDescription EXCEPT
                         !.outline_text = <<"Mauerwerk">>,
                         !.detail_text = <<"KS", " ", "24", "\n", "MG", " ", "IIa">>],
     formula |-> <<"3/2">>, use_calculated_qty |-> TRUE,
     provis |-> <<"WithTotal">>, aln_group_no |-> <<"1">>,
     aln_ser_no |-> <<"2">>, free_qty |-> TRUE, key_it |-> TRUE,
     markup_it |-> TRUE, surcharge_type |-> <<"AllInCat">>,
     surcharge_refs |-> << <<"0020">> >>,
     markup_type |-> <<"IdentAsMark">>, markup_sub_qty_refs |-> << <<"it-2">> >>,
     it_markup |-> Some(100), has_markup |-> TRUE, markup_value |-> Some(2500),
     ref_descr |-> <<"Ref">>, ref_rno |-> <<"0020">>,
     ref_rno_idref |-> <<"it-2">>, ref_perf_no |-> <<"1">>,
     ref_perf_no_idref |-> <<"pd-1">>, sum_descr |-> TRUE,
     sub_descriptions |-> <<[sub_d_no |-> <<"1">>, qty |-> Some(500),
                            qty_spec |-> <<>>, qu |-> <<"m2">>,
                            description |-> None]>>,
     ctlg_assignments |-> <<[ctlg_id |-> <<"DIN276">>, ctlg_code |-> <<"330">>]>>,
     up_bkdn |-> TRUE, qty_splits |-> <<("qty" :> 500)>>,
     add_texts |-> <<[outline_text |-> <<"Hinweis">>, outline_html |-> <<>>,
                     detail_text |-> <<>>, detail_html |-> <<>>]>>,
     bid_comments |-> << <<"Kommentar">> >>,
     text_compls |-> << <<"Ergaenzung">> >>]

Properties == DOMAIN FieldValue

\* the position under edit, and the properties an edit has given a value
EditedItem == Val(codec_project.boq).categories[1].items[1]

Populated == {f \in Properties : EditedItem[f] # NewItem[f]}

\* Itemlists of two and three positions, of one kind and of both
KindLists ==
    {<<"Item", "Item">>, <<"Item", "MarkupItem">>, <<"MarkupItem", "Item">>,
     <<"MarkupItem", "MarkupItem">>, <<"Item", "MarkupItem", "Item">>}

\* a file whose Itemlist holds bare positions of the given kinds
ListFile(kinds) ==
    ProjectFile(Xmlns(get_namespace("X83")), DPValue("X83"),
                [k \in 1..Len(kinds) |-> Position(kinds[k], k, <<>>)])

\* the elements of an Item that hold a decimal, in schema order, with a
\* well-formed text for each
DecimalTags == <<"Qty", "PredQty", "UP", "UPComp1", "DiscountPcnt", "IT", "VAT">>

GoodDecimal ==
    [Qty |-> <<"1", ".", "5", "0", "0">>, PredQty |-> <<"0", ".", "5">>,
     UP |-> <<"2", "0">>, UPComp1 |-> <<"1", "2", ".", "5", "0">>,
     DiscountPcnt |-> <<"5">>, IT |-> <<"3", "0", ".", "0", "0">>,
     VAT |-> <<"1", "9">>]

\* texts that Decimal() rejects
BadDecimals ==
    {<<"a", "b", "c">>, <<"1", "2", ",", "5", "0">>, <<"1", ".", "2", ".", "3">>,
     <<"m2">>}

\* an X84 file whose Item holds every decimal element, a unit and a flag;
\* texts gives the text of each decimal element
DecimalFile(texts) ==
    ProjectFile(Xmlns(get_namespace("X84")), DPValue("X84"),
        <<Position("Item", 1,
            <<Sub("NotOffered", <<"Yes">>),
              Sub("Qty", texts["Qty"]), Sub("PredQty", texts["PredQty"]),
              Sub("QU", <<"m2">>),
              Sub("UP", texts["UP"]), Sub("UPComp1", texts["UPComp1"]),
              Sub("DiscountPcnt", texts["DiscountPcnt"]),
              Sub("IT", texts["IT"]), Sub("VAT", texts["VAT"])>>)>>)

\* the well-formed document with the text of one element replaced
CorruptFile(tag, bad) == DecimalFile([GoodDecimal EXCEPT ![tag] = bad])

\* roots that detect_phase_and_version does not accept: without a
\* namespace, with a namespace of another shape, with an unknown code
ForeignNamespaces ==
    {<<"http://example.org/boq">>,
     <<NsHead, "8", "/", "3", ".", "3">>,
     <<NsHead, "8", "3", "1", "/", "3", ".", "3">>,
     <<NsHead, "8", "3", "/">>,
     <<NsHead, "8", "3", "/", "v", "3">>,
     <<NsHead, "9", "9", "/", "3", ".", "3">>,
     <<NsHead, "8", "0", "/", "3", ".", "3">>,
     <<NsHead, "0", "0", "/", "3", ".", "3">>}

\* namespaces of other versions, and with a rest after the version
OtherNamespaces ==
    {<<NsHead, "8", "4", "/", "3", ".", "2">>,
     <<NsHead, "8", "4", "/", "3">>,
     get_namespace("X86") \o <<"/", "draft">>}

NamespaceFile(root_attrib) ==
    ProjectFile(root_attrib, DPValue("X83"), <<Position("Item", 1, <<>>)>>)

\* the files the user can pick in the open dialog
DiskFiles ==
    {SampleFile(phase, kind) : phase \in GAEBPhase, kind \in ItemKinds} \cup
    {ListFile(kinds) : kinds \in KindLists} \cup
    {DecimalFile(GoodDecimal)} \cup
    {CorruptFile(DecimalTags[k], bad) : k \in 1..Len(DecimalTags),
                                       bad \in BadDecimals} \cup
    {NamespaceFile(<<>>)} \cup
    {NamespaceFile(Xmlns(ns)) : ns \in ForeignNamespaces \cup OtherNamespaces}

\* an editing session starts from a sample file just opened or from a new
\* project
InitCodec ==
    /\ \/ \E phase \in GAEBPhase, kind \in ItemKinds :
             /\ codec_file = Some(SampleFile(phase, kind))
             /\ codec_project = read(SampleFile(phase, kind))
             /\ codec_opened = Some([root |-> SampleFile(phase, kind),
                                     result |-> read(SampleFile(phase, kind))])
       \/ \E kind \in ItemKinds :
             /\ codec_file = None
             /\ codec_project = MemoryProject("X83", kind)
             /\ codec_opened = None
    /\ codec_built = None
    /\ codec_read = None
    /\ codec_sidecar = None
    /\ ConvIdle
    /\ PSIdle
    /\ EditIdle
    /\ RecentIdle

\* EditItemPropertyCommand.redo: setattr(item, property_name, new_value);
\* assigning markup_value gives the item that attribute
EditItemProperty(f) ==
    /\ codec_built = None
    /\ EditedItem[f] = NewItem[f]
    /\ Cardinality(Populated) < MaxPopulated
    /\ codec_project' =
          [codec_project EXCEPT !.boq[1].categories[1].items[1] =
              IF f = "markup_value"
              THEN [@ EXCEPT !.markup_value = FieldValue[f],
                             !.has_markup_value = TRUE]
              ELSE [@ EXCEPT ![f] = FieldValue[f]]]
    /\ UNCHANGED <<codec_built, codec_file, codec_read, codec_opened,
                   codec_sidecar>>
    /\ UNCHANGED <<conv_vars, ps_vars, edit_vars, recent_vars>>

\* ProjectController._open_file: the project read replaces the one in the
\* window; if read raises, a message box is shown and nothing else changes
Opened(root, result) ==
    /\ codec_opened' = Some([root |-> root, result |-> result])
    /\ codec_project' = IF HasAttr(result, "error") THEN codec_project
                        ELSE load_formula_metadata(result, codec_sidecar)
    /\ codec_file' = IF HasAttr(result, "error") THEN codec_file
                     ELSE Some(root)

OpenFile(root) ==
    /\ codec_built = None
    /\ Opened(root, read(root))
    /\ UNCHANGED <<codec_built, codec_read, codec_sidecar>>
    /\ UNCHANGED <<conv_vars, ps_vars, edit_vars, recent_vars>>

\* GAEBWriter.write(project, file_path): tree.write replaces the file only
\* if building the tree did not raise
Write ==
    /\ codec_built = None
    /\ codec_built' = Some(write(codec_project))
    /\ codec_file' = IF Val(codec_built').raised THEN codec_file
                     ELSE Some(Val(codec_built').elem)
    /\ UNCHANGED <<codec_project, codec_read, codec_opened, codec_sidecar>>
    /\ UNCHANGED <<conv_vars, ps_vars, edit_vars, recent_vars>>

\* GAEBReader.read(file_path) of the file just saved
Read ==
    /\ codec_built # None
    /\ ~Val(codec_built).raised
    /\ codec_read = None
    /\ codec_read' = Some(read(Val(codec_file)))
    /\ UNCHANGED <<codec_project, codec_built, codec_file, codec_opened,
                   codec_sidecar>>
    /\ UNCHANGED <<conv_vars, ps_vars, edit_vars, recent_vars>>

NextCodec ==
    \/ \E f \in Properties : EditItemProperty(f)
    \/ Write
    \/ Read

SpecCodec == InitCodec /\ [][NextCodec]_vars

\* opening files and saving what was opened, starting from a new project
InitOpen ==
    /\ \E kind \in ItemKinds : codec_project = MemoryProject("X83", kind)
    /\ codec_file = None
    /\ codec_opened = None
    /\ codec_built = None
    /\ codec_read = None
    /\ codec_sidecar = None
    /\ ConvIdle
    /\ PSIdle
    /\ EditIdle
    /\ RecentIdle

NextOpen ==
    \/ \E root \in DiskFiles : OpenFile(root)
    \/ Write
    \/ Read

SpecOpen == InitOpen /\ [][NextOpen]_vars

\* the formulas the editor's formula field is given
FormulaTexts == {<<>>, <<"3/2">>}

\* the sidecar an earlier save left for a project whose first position
\* had a formula
EarlierSidecar ==
    Some([version |-> 1,
          items |-> (<<"it-1">> :> [formula |-> <<"3/2">>,
                                use_calculated_qty |-> FALSE])])

\* a session on formulas starts from a file just opened, with or without
\* a sidecar next to it, or from a new project
InitSidecar ==
    /\ \/ \E kinds \in KindLists \cup {<<"MarkupItem">>, <<"Item">>},
             sidecar \in {None, EarlierSidecar} :
             /\ codec_file = Some(ListFile(kinds))
             /\ codec_sidecar = sidecar
             /\ codec_project = load_formula_metadata(read(ListFile(kinds)),
                                                      sidecar)
             /\ codec_opened = Some([root |-> ListFile(kinds),
                                     result |-> read(ListFile(kinds))])
       \/ \E kind \in ItemKinds :
             /\ codec_file = None
             /\ codec_sidecar = None
             /\ codec_project = MemoryProject("X83", kind)
             /\ codec_opened = None
    /\ codec_built = None
    /\ codec_read = None
    /\ ConvIdle
    /\ PSIdle
    /\ EditIdle
    /\ RecentIdle

\* the positions of the category on screen
EditableItems == 1..Len(Val(codec_project.boq).categories[1].items)

\* ItemEditor._on_formula_changed: the formula field's text becomes the
\* item's formula (EditItemPropertyCommand)
EditFormula(k, new_formula) ==
    /\ new_formula # Val(codec_project.boq).categories[1].items[k].formula
    /\ codec_project' = [codec_project EXCEPT
          !.boq[1].categories[1].items[k].formula = new_formula]
    /\ UNCHANGED <<codec_built, codec_file, codec_read, codec_opened,
                   codec_sidecar>>
    /\ UNCHANGED <<conv_vars, ps_vars, edit_vars, recent_vars>>

\* ItemEditor._on_calculation_mode_changed: the check box is toggled
ToggleUseCalculated(k) ==
    /\ codec_project' = [codec_project EXCEPT
          !.boq[1].categories[1].items[k].use_calculated_qty = ~@]
    /\ UNCHANGED <<codec_built, codec_file, codec_read, codec_opened,
                   codec_sidecar>>
    /\ UNCHANGED <<conv_vars, ps_vars, edit_vars, recent_vars>>

\* ProjectController._do_save: GAEBWriter.write, then save_formula_metadata;
\* if write raises, a message box is shown and the sidecar is not touched
DoSave ==
    /\ codec_built' = Some(write(codec_project))
    /\ codec_file' = IF Val(codec_built').raised THEN codec_file
                     ELSE Some(Val(codec_built').elem)
    /\ codec_sidecar' = IF Val(codec_built').raised THEN codec_sidecar
                        ELSE save_formula_metadata(codec_project, codec_sidecar)
    /\ UNCHANGED <<codec_project, codec_read, codec_opened>>
    /\ UNCHANGED <<conv_vars, ps_vars, edit_vars, recent_vars>>

NextSidecar ==
    \/ \E k \in EditableItems, t \in FormulaTexts : EditFormula(k, t)
    \/ \E k \in EditableItems : ToggleUseCalculated(k)
    \/ DoSave

SpecSidecar == InitSidecar /\ [][NextSidecar]_vars

\* the blocks a DetailTxt is made of: two texts, an empty text and a text
\* complement
DetailBlock ==
    [T |-> SubNode("Text", Paragraphs(<<"KS", " ", "24">>)),
     U |-> SubNode("Text", Paragraphs(<<"MG", " ", "IIa">>)),
     E |-> SubNode("Text", <<>>),
     C |-> SubNode("TextComplement", <<Sub("ComplCaption", <<"Fabrikat">>)>>)]

\* the children of the DetailTxt of a file; <<>> is a description without
\* DetailTxt
DetailShapes ==
    {<<>>, <<"T">>, <<"C">>, <<"T", "C">>, <<"T", "U">>, <<"E", "U">>,
     <<"T", "C", "U">>}

\* an X83 file whose position has a description with an outline text, the
\* given DetailTxt and, if asked for, an STLBBau and a PerfDescr subtree
DescriptionFile(kind, stlb_bau, perf_descr, shape) ==
    ProjectFile(Xmlns(get_namespace("X83")), DPValue("X83"),
        <<Position(kind, 1,
            <<SubNode("Description",
                Opt(stlb_bau, SubNode("STLBBau", <<Sub("Type", <<"STLB">>)>>)) \o
                Opt(perf_descr, SubNode("PerfDescr", <<Sub("PerfNo", <<"1">>)>>)) \o
                <<SubNode("CompleteText",
                    Opt(shape # <<>>,
                        SubNode("DetailTxt",
                            [k \in 1..Len(shape) |-> DetailBlock[shape[k]]])) \o
                    <<SubNode("OutlineText",
                        <<SubNode("OutlTxt",
                            <<SubNode("TextOutlTxt",
                                Paragraphs(<<"Mauerwerk">>))>>)>>)>>)>>)>>)>>)

\* a session on the texts of a position starts from a file just opened
InitDescription ==
    /\ \E kind \in ItemKinds, stlb_bau \in BOOLEAN, perf_descr \in BOOLEAN,
          shape \in DetailShapes :
          /\ codec_file =
                Some(DescriptionFile(kind, stlb_bau, perf_descr, shape))
          /\ codec_project =
                read(DescriptionFile(kind, stlb_bau, perf_descr, shape))
          /\ codec_opened =
                Some([root |-> DescriptionFile(kind, stlb_bau, perf_descr, shape),
                      result |-> read(DescriptionFile(kind, stlb_bau,
                                                      perf_descr, shape))])
    /\ codec_built = None
    /\ codec_read = None
    /\ codec_sidecar = None
    /\ ConvIdle
    /\ PSIdle
    /\ EditIdle
    /\ RecentIdle

\* what the rich text widget commits for a text typed in: the plain text
\* with its GAEB HTML, which is "" while the widget knows no namespace
EditedTexts == {<<>>, <<"Neu">>, <<"KS", " ", "24">>}

Committed(parent_tag) ==
    UNION {{[gaeb_html |-> <<>>, plain_text |-> text],
            [gaeb_html |-> Some(SubNode(parent_tag, Paragraphs(text))),
             plain_text |-> text]} : text \in EditedTexts}

\* ItemEditor._on_detail_edited: the changed fields are set and, if
\* anything changed, the preserved DetailTxt is dropped
OnDetailEdited(gaeb_html, plain_text) ==
    /\ codec_built = None
    /\ codec_project' = [codec_project EXCEPT
          !.boq[1].categories[1].items[1].description =
              IF gaeb_html # @.detail_html \/ plain_text # @.detail_text
              THEN [@ EXCEPT !.detail_html = gaeb_html,
                             !.detail_text = plain_text,
                             !.detail_txt_raw = None]
              ELSE @]
    /\ UNCHANGED <<codec_built, codec_file, codec_read, codec_opened,
                   codec_sidecar>>
    /\ UNCHANGED <<conv_vars, ps_vars, edit_vars, recent_vars>>

\* ItemEditor._on_outline_edited
OnOutlineEdited(gaeb_html, plain_text) ==
    /\ codec_built = None
    /\ codec_project' = [codec_project EXCEPT
          !.boq[1].categories[1].items[1].description =
              [@ EXCEPT !.outline_html = gaeb_html,
                        !.outline_text = plain_text]]
    /\ UNCHANGED <<codec_built, codec_file, codec_read, codec_opened,
                   codec_sidecar>>
    /\ UNCHANGED <<conv_vars, ps_vars, edit_vars, recent_vars>>

NextDescription ==
    \/ \E c \in Committed("Text") :
          OnDetailEdited(c.gaeb_html, c.plain_text)
    \/ \E c \in Committed("TextOutlTxt") :
          OnOutlineEdited(c.gaeb_html, c.plain_text)
    \/ Write
    \/ Read

SpecDescription == InitDescription /\ [][NextDescription]_vars

-----------------------------------------------------------------------------
(* The OZ mask of a project and the commands of the undo stack *)

\* a level of the mask: BoQBkdn with the fields the rules of the mask read.
\* Numeric, label and alignment play no part in them.
BoQBkdn(type, length) == [type |-> type, length |-> length]

\* BoQBkdn(): the level before the reader fills it
NewBoQBkdn == BoQBkdn(<<"BoQLevel">>, 2)

\* the mask a new project starts from
DEFAULT_BREAKDOWNS == <<BoQBkdn(<<"BoQLevel">>, 2), BoQBkdn(<<"Item">>, 4)>>

\* the masks the template combo box offers
TEMPLATES ==
    <<  <<BoQBkdn(<<"BoQLevel">>, 2), BoQBkdn(<<"Item">>, 4)>>,
        <<BoQBkdn(<<"BoQLevel">>, 2), BoQBkdn(<<"Item">>, 4),
          BoQBkdn(<<"Index">>, 1)>>,
        <<BoQBkdn(<<"BoQLevel">>, 2), BoQBkdn(<<"BoQLevel">>, 2),
          BoQBkdn(<<"Item">>, 4)>>,
        <<BoQBkdn(<<"BoQLevel">>, 2), BoQBkdn(<<"BoQLevel">>, 2),
          BoQBkdn(<<"Item">>, 4), BoQBkdn(<<"Index">>, 1)>>,
        <<BoQBkdn(<<"Lot">>, 2), BoQBkdn(<<"BoQLevel">>, 2),
          BoQBkdn(<<"BoQLevel">>, 2), BoQBkdn(<<"Item">>, 4)>>,
        <<BoQBkdn(<<"BoQLevel">>, 2), BoQBkdn(<<"BoQLevel">>, 2),
          BoQBkdn(<<"BoQLevel">>, 2), BoQBkdn(<<"Item">>, 4)>>  >>

\* the types the combo box of a row offers
TYPE_VALUES == <<<<"Lot">>, <<"BoQLevel">>, <<"Item">>, <<"Index">>>>

MAX_OZ_LENGTH == 14

\* sum(1 for b in breakdowns if b.type in types)
CountOfType(breakdowns, types) ==
    Cardinality({k \in 1..Len(breakdowns) : breakdowns[k].type \in types})

\* sum(b.length for b in breakdowns)
RECURSIVE TotalLength(_)
TotalLength(breakdowns) ==
    IF breakdowns = <<>> THEN 0
    ELSE Head(breakdowns).length + TotalLength(Tail(breakdowns))

\* order.get(b.type, 1)
OrderOf(type) ==
    CASE type = <<"Lot">> -> 0
      [] type = <<"BoQLevel">> -> 1
      [] type = <<"Item">> -> 2
      [] type = <<"Index">> -> 3
      [] OTHER -> 1

\* the loop over the levels that checks Lot, BoQLevel(s), Item, Index follow
\* in this order: the message it returns, or None when it runs to its end
RECURSIVE OrderCheck(_, _, _)
OrderCheck(breakdowns, k, last_order) ==
    IF k > Len(breakdowns) THEN None
    ELSE LET b == breakdowns[k]
             current == OrderOf(b.type)
         IN  IF b.type = <<"BoQLevel">>
             THEN IF current < last_order /\ last_order > 1
                  THEN Some("LV-Stufen muessen vor der Position stehen.")
                  ELSE OrderCheck(breakdowns, k + 1, last_order)
             ELSE IF current < last_order
                  THEN Some("Die Reihenfolge muss sein: Los, LV-Stufe(n), Position, Index")
                  ELSE OrderCheck(breakdowns, k + 1, current)

\* OZMaskDialog._validate over the rows of the table: the message of the
\* first rule broken, or None
validate(breakdowns) ==
    LET item_count == CountOfType(breakdowns, {<<"Item">>})
        lot_count == CountOfType(breakdowns, {<<"Lot">>})
        index_count == CountOfType(breakdowns, {<<"Index">>})
        last == breakdowns[Len(breakdowns)]
    IN  IF breakdowns = <<>>
        THEN Some("Mindestens eine Ebene muss definiert sein.")
        ELSE IF item_count = 0
        THEN Some("Es muss genau eine Ebene vom Typ 'Position' vorhanden sein.")
        ELSE IF item_count > 1
        THEN Some("Es darf nur eine Ebene vom Typ 'Position' geben.")
        ELSE IF lot_count > 1
        THEN Some("Es darf maximal ein Los ('Lot') geben.")
        ELSE IF lot_count = 1 /\ breakdowns[1].type # <<"Lot">>
        THEN Some("Das Los muss die erste Ebene sein.")
        ELSE IF index_count > 1
        THEN Some("Es darf maximal einen Index geben.")
        ELSE IF index_count = 1 /\ last.type # <<"Index">>
        THEN Some("Der Index muss die letzte Ebene sein.")
        ELSE IF index_count = 1 /\ last.length # 1
        THEN Some("Der Index muss genau 1 Stelle lang sein.")
        ELSE IF OrderCheck(breakdowns, 1, -1) # None
        THEN OrderCheck(breakdowns, 1, -1)
        ELSE IF TotalLength(breakdowns) > MAX_OZ_LENGTH
        THEN Some("Die Gesamtlaenge ueberschreitet das Maximum.")
        ELSE IF CountOfType(breakdowns, {<<"Lot">>, <<"BoQLevel">>}) > 5
        THEN Some("Maximal 5 Hierarchiestufen (Los + LV-Stufen) erlaubt.")
        ELSE None

\* int(length_str): None stands for ValueError
ParseInt(text) ==
    IF text # <<>> /\ \A k \in 1..Len(text) : IsDigit(text[k])
    THEN Some(NatValue(text)) ELSE None

\* the loop of _parse_boq_info over the BoQBkdn children of a BoQInfo: every
\* level is taken as the file gives it, a missing type or an unreadable
\* length keeping the value a new BoQBkdn has
ParseBkdn(bkdn) ==
    LET type == Text(bkdn, "Type")
        length_str == Text(bkdn, "Length")
    IN  BoQBkdn(IF type # <<>> THEN type ELSE NewBoQBkdn.type,
                IF length_str # <<>> /\ ParseInt(length_str) # None
                THEN Val(ParseInt(length_str)) ELSE NewBoQBkdn.length)

parse_breakdowns(bi) ==
    LET elems == FindAll(bi, "BoQBkdn")
    IN  [k \in 1..Len(elems) |-> ParseBkdn(elems[k])]

\* a BoQBkdn element as the writer emits it
BkdnElement(type, length) ==
    SubNode("BoQBkdn", <<Sub("Type", type), Sub("Length", length),
                         Sub("Num", <<"Yes">>)>>)

\* the BoQInfo elements of the files on disk: masks of other programs,
\* well-formed for the schema, which puts no rule on the levels
MaskFiles ==
    { SubNode("BoQInfo", <<Sub("Name", <<"Neubau">>)>> \o levels) : levels \in
        { <<>>,
          <<BkdnElement(<<"BoQLevel">>, <<"2">>), BkdnElement(<<"Item">>, <<"4">>)>>,
          <<BkdnElement(<<"Lot">>, <<"2">>), BkdnElement(<<"BoQLevel">>, <<"2">>),
            BkdnElement(<<"Item">>, <<"4">>), BkdnElement(<<"Index">>, <<"1">>)>>,
          <<BkdnElement(<<"BoQLevel">>, <<"2">>)>>,
          <<BkdnElement(<<"Item">>, <<"4">>), BkdnElement(<<"Item">>, <<"4">>)>>,
          <<BkdnElement(<<"BoQLevel">>, <<"2">>), BkdnElement(<<"Lot">>, <<"2">>),
            BkdnElement(<<"Item">>, <<"4">>)>>,
          <<BkdnElement(<<"BoQLevel">>, <<"2">>), BkdnElement(<<"Item">>, <<"4">>),
            BkdnElement(<<"Index">>, <<"2">>)>>,
          <<BkdnElement(<<"BoQLevel">>, <<"5">>), BkdnElement(<<"BoQLevel">>, <<"5">>),
            BkdnElement(<<"Item">>, <<"5">>)>>,
          <<BkdnElement(<<>>, <<"x">>), BkdnElement(<<"Item">>, <<"1", "0">>)>> } }

\* the rows a user can put into the table of the dialog: up to MaxRows rows
\* of any type with one of two lengths, a template, or one of the longer
\* masks below
MaxRows == 2

RowChoices ==
    {BoQBkdn(TYPE_VALUES[t], length) : t \in 1..Len(TYPE_VALUES),
                                      length \in {1, 5}}

SevenLevels ==
    <<BoQBkdn(<<"Lot">>, 1)>> \o [k \in 1..5 |-> BoQBkdn(<<"BoQLevel">>, 1)] \o
    <<BoQBkdn(<<"Item">>, 1)>>

FifteenDigits ==
    <<BoQBkdn(<<"BoQLevel">>, 5), BoQBkdn(<<"BoQLevel">>, 5),
      BoQBkdn(<<"Item">>, 5)>>

FourteenDigits ==
    <<BoQBkdn(<<"BoQLevel">>, 5), BoQBkdn(<<"BoQLevel">>, 5),
      BoQBkdn(<<"Item">>, 4)>>

DialogRows ==
    UNION {[1..n -> RowChoices] : n \in 0..MaxRows} \cup Range(TEMPLATES) \cup
    {SevenLevels, Tail(SevenLevels), FifteenDigits, FourteenDigits,
     <<BoQBkdn(<<"Item">>, 4), BoQBkdn(<<"BoQLevel">>, 2)>>,
     <<BoQBkdn(<<"BoQLevel">>, 2), BoQBkdn(<<"Item">>, 4),
       BoQBkdn(<<"Index">>, 1), BoQBkdn(<<"BoQLevel">>, 2)>>}

\* the depth of the undo stack that is explored
MaxUndo == 1

\* MainController.set_project: the project becomes the open one and the
\* undo stack is cleared
SetProject(breakdowns) ==
    /\ boq_breakdowns' = breakdowns
    /\ undo_stack' = <<>>
    /\ undo_index' = 0
    /\ UNCHANGED <<parent_list, boq_lists, main_project, app_crashed>>
    /\ UNCHANGED <<conv_vars, ps_vars, codec_vars, recent_vars>>

\* ProjectController._open_file for a file with the given BoQInfo
OpenMaskFile(bi) == SetProject(parse_breakdowns(bi))

\* ProjectController.new_project: the mask is what PhaseSelectDialog holds
\* when it is accepted, the default, a template, or what an OZMaskDialog
\* opened from it was accepted with
NewProject(breakdowns) ==
    /\ \/ breakdowns = DEFAULT_BREAKDOWNS
       \/ breakdowns \in Range(TEMPLATES)
       \/ validate(breakdowns) = None
    /\ SetProject(breakdowns)

\* QUndoStack.push: the commands undone are dropped, the command is appended
\* and its redo runs
Push(cmd) ==
    /\ undo_stack' = SubSeq(undo_stack, 1, undo_index) \o <<cmd>>
    /\ undo_index' = undo_index + 1

\* MainController._on_oz_mask: the dialog is accepted with the given rows,
\* which _on_accept allows only when _validate finds no error; the
\* ChangeOZMaskCommand is pushed and its redo sets the mask
OnOZMask(rows) ==
    /\ undo_index < MaxUndo
    /\ validate(rows) = None
    /\ Push([old |-> boq_breakdowns, new |-> rows])
    /\ boq_breakdowns' = rows
    /\ UNCHANGED <<parent_list, boq_lists, main_project, app_crashed>>
    /\ UNCHANGED <<conv_vars, ps_vars, codec_vars, recent_vars>>

\* MainController undo with a ChangeOZMaskCommand on top
UndoOZMask ==
    /\ undo_index > 0
    /\ boq_breakdowns' = undo_stack[undo_index].old
    /\ undo_index' = undo_index - 1
    /\ UNCHANGED <<parent_list, undo_stack, boq_lists, main_project, app_crashed>>
    /\ UNCHANGED <<conv_vars, ps_vars, codec_vars, recent_vars>>

\* MainController redo with an undone ChangeOZMaskCommand
RedoOZMask ==
    /\ undo_index < Len(undo_stack)
    /\ boq_breakdowns' = undo_stack[undo_index + 1].new
    /\ undo_index' = undo_index + 1
    /\ UNCHANGED <<parent_list, undo_stack, boq_lists, main_project, app_crashed>>
    /\ UNCHANGED <<conv_vars, ps_vars, codec_vars, recent_vars>>

\* a project just opened or just created
InitMask ==
    /\ \/ \E bi \in MaskFiles : boq_breakdowns = parse_breakdowns(bi)
       \/ \E breakdowns \in DialogRows :
              /\ validate(breakdowns) = None
              /\ boq_breakdowns = breakdowns
    /\ parent_list = <<>>
    /\ boq_lists = <<>>
    /\ main_project = None /\ app_crashed = FALSE
    /\ undo_stack = <<>>
    /\ undo_index = 0
    /\ ConvIdle
    /\ PSIdle
    /\ CodecIdle
    /\ RecentIdle

NextMask ==
    \/ \E bi \in MaskFiles : OpenMaskFile(bi)
    \/ \E breakdowns \in DialogRows : NewProject(breakdowns)
    \/ \E rows \in DialogRows : OnOZMask(rows)
    \/ UndoOZMask
    \/ RedoOZMask

SpecMask == InitMask /\ [][NextMask]_vars

-----------------------------------------------------------------------------
(* Moving a node among its siblings *)

\* Node objects are named by strings. Item and BoQCategory are dataclasses,
\* so == compares the fields: two positions a file holds twice, with the
\* same ID and the same content, are two objects that are equal. Every node
\* the application makes gets a fresh uuid and equals no other node.
EqualItems == {"i1", "i2"}

\* x == y for two nodes, as list.index, list.remove and "in" apply it: the
\* same object, or equal by value
NodeEq(x, y) == x = y \/ (x \in EqualItems /\ y \in EqualItems)

\* parent_list.index(item), counted from 1: the first position that holds
\* an element equal to the item
IndexOf(list, item) ==
    CHOOSE k \in 1..Len(list) :
        NodeEq(list[k], item) /\ \A j \in 1..(k - 1) : ~NodeEq(list[j], item)

\* the guarded swap of both methods: the elements at idx and new_idx change
\* places when new_idx is a position of the list
SwapAt(list, idx, new_idx) ==
    IF 1 <= new_idx /\ new_idx <= Len(list)
    THEN [list EXCEPT ![idx] = list[new_idx], ![new_idx] = list[idx]]
    ELSE list

\* MoveNodeCommand.redo
MoveNodeCommand_redo(list, cmd) ==
    SwapAt(list, IndexOf(list, cmd.item),
           IndexOf(list, cmd.item) + cmd.direction)

\* MoveNodeCommand.undo
MoveNodeCommand_undo(list, cmd) ==
    SwapAt(list, IndexOf(list, cmd.item),
           IndexOf(list, cmd.item) - cmd.direction)

\* the nodes of the sibling lists and the longest list explored
Nodes == {"a", "b", "c", "d"}

MaxListLen == 3

\* the lists of siblings: nodes of a tree, each of them once
SiblingLists ==
    {list \in UNION {[1..n -> Nodes] : n \in 1..MaxListLen} :
        \A j, k \in 1..Len(list) : j # k => list[j] # list[k]}

\* the number of move commands on the undo stack that is explored
MaxMoves == 2

\* a MoveNodeCommand for an element of the list and a direction, -1 for up
\* and +1 for down, is made and pushed, which runs its redo. The command
\* also records, for the properties, the list it was made for (before).
ExecuteMove(item, direction) ==
    /\ undo_index < MaxMoves
    /\ item \in Range(parent_list)
    /\ LET cmd == [item |-> item, direction |-> direction,
                   before |-> parent_list]
       IN  /\ Push(cmd)
           /\ parent_list' = MoveNodeCommand_redo(parent_list, cmd)
    /\ UNCHANGED <<boq_breakdowns, boq_lists, main_project, app_crashed>>
    /\ UNCHANGED <<conv_vars, ps_vars, codec_vars, recent_vars>>

\* MainController undo with a MoveNodeCommand on top
UndoMove ==
    /\ undo_index > 0
    /\ parent_list' = MoveNodeCommand_undo(parent_list, undo_stack[undo_index])
    /\ undo_index' = undo_index - 1
    /\ UNCHANGED <<boq_breakdowns, undo_stack, boq_lists, main_project, app_crashed>>
    /\ UNCHANGED <<conv_vars, ps_vars, codec_vars, recent_vars>>

\* MainController redo with an undone MoveNodeCommand
RedoMove ==
    /\ undo_index < Len(undo_stack)
    /\ parent_list' =
           MoveNodeCommand_redo(parent_list, undo_stack[undo_index + 1])
    /\ undo_index' = undo_index + 1
    /\ UNCHANGED <<boq_breakdowns, undo_stack, boq_lists, main_project, app_crashed>>
    /\ UNCHANGED <<conv_vars, ps_vars, codec_vars, recent_vars>>

InitMove ==
    /\ parent_list \in SiblingLists
    /\ boq_breakdowns = DEFAULT_BREAKDOWNS
    /\ boq_lists = <<>>
    /\ main_project = None /\ app_crashed = FALSE
    /\ undo_stack = <<>>
    /\ undo_index = 0
    /\ ConvIdle
    /\ PSIdle
    /\ CodecIdle
    /\ RecentIdle

NextMove ==
    \/ \E item \in Nodes, direction \in {-1, 1} : ExecuteMove(item, direction)
    \/ UndoMove
    \/ RedoMove

SpecMove == InitMove /\ [][NextMove]_vars

-----------------------------------------------------------------------------
(* The lists of the BoQ tree and the drag-and-drop command *)

\* x in list
Contains(list, x) == \E k \in 1..Len(list) : NodeEq(list[k], x)

\* list.index(x), counted from 1, for an x the list contains
ListIndex(list, x) ==
    CHOOSE k \in 1..Len(list) :
        NodeEq(list[k], x) /\ \A j \in 1..(k - 1) : ~NodeEq(list[j], x)

RemoveAt(list, k) == SubSeq(list, 1, k - 1) \o SubSeq(list, k + 1, Len(list))

\* list.remove(x) for an x the list contains: the first element equal to x
\* goes
ListRemove(list, x) == RemoveAt(list, ListIndex(list, x))

\* list.insert(idx, x) with Python's index, counted from 0: an index beyond
\* the end appends, a negative one counts from the end
ListInsert(list, idx, x) ==
    LET at == IF idx < 0
              THEN (IF idx + Len(list) < 0 THEN 0 ELSE idx + Len(list))
              ELSE (IF idx > Len(list) THEN Len(list) ELSE idx)
    IN  SubSeq(list, 1, at) \o <<x>> \o SubSeq(list, at + 1, Len(list))

\* DragDropMoveCommand.redo on the lists of the tree. A remove of an element
\* the list does not hold raises ValueError, which ends the method there.
DragDropMoveCommand_redo(lists, cmd) ==
    IF ~Contains(lists[cmd.source_list], cmd.source_item) THEN lists
    ELSE LET removed == [lists EXCEPT ![cmd.source_list] =
                            ListRemove(@, cmd.source_item)]
             idx == IF /\ cmd.source_list = cmd.target_list
                       /\ cmd.source_index < cmd.target_index
                    THEN cmd.target_index - 1 ELSE cmd.target_index
         IN  [removed EXCEPT ![cmd.target_list] =
                 ListInsert(@, idx, cmd.source_item)]

\* DragDropMoveCommand.undo
DragDropMoveCommand_undo(lists, cmd) ==
    IF ~Contains(lists[cmd.target_list], cmd.source_item) THEN lists
    ELSE LET removed == [lists EXCEPT ![cmd.target_list] =
                            ListRemove(@, cmd.source_item)]
         IN  [removed EXCEPT ![cmd.source_list] =
                 ListInsert(@, cmd.source_index, cmd.source_item)]

\* the items of the two lists a command is tried on, and the longest list
DragItems == {"i1", "i2", "i3", "i4"}

MaxDragLen == 3

\* lists of items, each object once
DragLists ==
    {list \in UNION {[1..n -> DragItems] : n \in 0..MaxDragLen} :
        \A j, k \in 1..Len(list) : j # k => list[j] # list[k]}

ListA == <<"c1", "items">>

ListB == <<"c2", "items">>

\* the number of drag-and-drop commands on the undo stack that is explored
MaxDrops == 1

\* a DragDropMoveCommand is made for the element at source_index of the
\* source list and a target index, and pushed, which runs its redo. The
\* command also records, for the properties, the lists as they were (before).
ExecuteDragDrop(source_list, source_index, target_list, target_index) ==
    /\ undo_index < MaxDrops
    /\ source_index \in 0..(Len(boq_lists[source_list]) - 1)
    /\ target_index \in 0..Len(boq_lists[target_list])
    /\ LET cmd == [source_list |-> source_list,
                   source_item |-> boq_lists[source_list][source_index + 1],
                   source_index |-> source_index,
                   target_list |-> target_list,
                   target_index |-> target_index,
                   before |-> boq_lists]
       IN  /\ Push(cmd)
           /\ boq_lists' = DragDropMoveCommand_redo(boq_lists, cmd)
    /\ UNCHANGED <<boq_breakdowns, parent_list, main_project, app_crashed>>
    /\ UNCHANGED <<conv_vars, ps_vars, codec_vars, recent_vars>>

\* MainController undo with a DragDropMoveCommand on top
UndoDragDrop ==
    /\ undo_index > 0
    /\ boq_lists' = DragDropMoveCommand_undo(boq_lists, undo_stack[undo_index])
    /\ undo_index' = undo_index - 1
    /\ UNCHANGED <<boq_breakdowns, parent_list, undo_stack, main_project,
                   app_crashed>>
    /\ UNCHANGED <<conv_vars, ps_vars, codec_vars, recent_vars>>

\* MainController redo with an undone DragDropMoveCommand
RedoDragDrop ==
    /\ undo_index < Len(undo_stack)
    /\ boq_lists' =
           DragDropMoveCommand_redo(boq_lists, undo_stack[undo_index + 1])
    /\ undo_index' = undo_index + 1
    /\ UNCHANGED <<boq_breakdowns, parent_list, undo_stack, main_project,
                   app_crashed>>
    /\ UNCHANGED <<conv_vars, ps_vars, codec_vars, recent_vars>>

\* two item lists that share no object
InitDragDrop ==
    /\ \E a \in DragLists, b \in DragLists :
           /\ Range(a) \cap Range(b) = {}
           /\ boq_lists = (ListA :> a) @@ (ListB :> b)
    /\ boq_breakdowns = DEFAULT_BREAKDOWNS
    /\ parent_list = <<>>
    /\ undo_stack = <<>>
    /\ undo_index = 0
    /\ main_project = None /\ app_crashed = FALSE
    /\ ConvIdle
    /\ PSIdle
    /\ CodecIdle
    /\ RecentIdle

NextDragDrop ==
    \/ \E source_list \in {ListA, ListB}, target_list \in {ListA, ListB},
          source_index \in 0..(MaxDragLen - 1), target_index \in 0..MaxDragLen :
           ExecuteDragDrop(source_list, source_index, target_list, target_index)
    \/ UndoDragDrop
    \/ RedoDragDrop

SpecDragDrop == InitDragDrop /\ [][NextDragDrop]_vars

-----------------------------------------------------------------------------
(* Property edits and phase conversion on the undo stack of the window *)

\* bounds of the editing session
MaxAppUndo == 2

OldProjectOffset == 2 * CopyOffset

\* the values typed into the unit field and into the number field
QuValues == {<<>>, <<"m">>}

RnoValues == {<<"01">>, <<"02">>}

\* the phases chosen in the PhaseConvertDialog
ConvertTargets == {"X81", "X84"}

PropertyValues(property_name) ==
    IF property_name = "qu" THEN QuValues ELSE RnoValues

\* hash((kind, id(object), property_name)) % 2**31: never -1, and equal for
\* two commands of one class on one object and one property
CommandId(cmd) == <<cmd.kind, cmd.target, cmd.property_name>>

\* EditItemPropertyCommand(item, property_name, old_value, new_value) and
\* EditCategoryPropertyCommand(category, ...); first_old and last_new record,
\* for the properties, the value the attribute held when the command was made
\* and the value of the last edit the command stands for
EditPropertyCommand(kind, target, property_name, old_value, new_value) ==
    [kind |-> kind, target |-> target, property_name |-> property_name,
     old_value |-> old_value, new_value |-> new_value,
     first_old |-> old_value, last_new |-> new_value]

IsEditCommand(cmd) ==
    cmd.kind \in {"EditItemPropertyCommand", "EditCategoryPropertyCommand"}

\* a mergeWith that takes the old value of the later command as well
mergeWith_takes_old(self, other) ==
    IF ~IsEditCommand(other) \/ other.kind # self.kind THEN [merged |-> FALSE, self |-> self]
    ELSE IF other.target # self.target THEN [merged |-> FALSE, self |-> self]
    ELSE IF other.property_name # self.property_name
    THEN [merged |-> FALSE, self |-> self]
    ELSE [merged |-> TRUE,
          self |-> [self EXCEPT !.new_value = other.new_value,
                                !.old_value = other.old_value,
                                !.last_new = other.new_value]]

\* EditItemPropertyCommand.mergeWith, EditCategoryPropertyCommand.mergeWith:
\* [merged, self], self as the call leaves it
mergeWith(self, other) ==
    IF ~IsEditCommand(other) \/ other.kind # self.kind THEN [merged |-> FALSE, self |-> self]
    ELSE IF other.target # self.target THEN [merged |-> FALSE, self |-> self]
    ELSE IF other.property_name # self.property_name
    THEN [merged |-> FALSE, self |-> self]
    ELSE [merged |-> TRUE,
          self |-> [self EXCEPT !.new_value = other.new_value,
                                !.last_new = other.new_value]]

\* QUndoStack.push after cmd.redo() has run: the undone commands are dropped,
\* the command is merged into the one below it when both have the same id
\* and mergeWith accepts, and is appended otherwise
PushMerging(cmd) ==
    LET kept == SubSeq(undo_stack, 1, undo_index)
        cur == kept[undo_index]
        try_merge == /\ undo_index > 0
                     /\ IsEditCommand(cur)
                     /\ CommandId(cur) = CommandId(cmd)
        m == mergeWith(cur, cmd)
    IN  IF try_merge /\ m.merged
        THEN /\ undo_stack' = [kept EXCEPT ![undo_index] = m.self]
             /\ undo_index' = undo_index
        ELSE /\ undo_stack' = Append(kept, cmd)
             /\ undo_index' = undo_index + 1

MainItems == ProjectItems(projects, cats, Val(main_project))

MainCats == ProjectCats(projects, cats, Val(main_project))

AppRunning == ~app_crashed /\ ~IsNone(main_project)

\* ItemEditor._on_field_changed with one field changed: the command is made
\* with the attribute's value as old value and pushed, which runs its redo
OnItemFieldChanged(i, property_name, value) ==
    /\ AppRunning
    /\ i \in MainItems
    /\ value # items[i][property_name]
    /\ undo_index < MaxAppUndo
    /\ items' = [items EXCEPT ![i][property_name] = value]
    /\ PushMerging(EditPropertyCommand("EditItemPropertyCommand", i,
                                       property_name, items[i][property_name],
                                       value))
    /\ UNCHANGED <<projects, cats, conv_call, conv_result>>
    /\ UNCHANGED <<boq_breakdowns, parent_list, boq_lists, main_project,
                   app_crashed>>
    /\ UNCHANGED <<ps_vars, codec_vars, recent_vars>>

\* CategoryEditor._on_field_changed with one field changed
OnCategoryFieldChanged(c, property_name, value) ==
    /\ AppRunning
    /\ c \in MainCats
    /\ value # cats[c][property_name]
    /\ undo_index < MaxAppUndo
    /\ cats' = [cats EXCEPT ![c][property_name] = value]
    /\ PushMerging(EditPropertyCommand("EditCategoryPropertyCommand", c,
                                       property_name, cats[c][property_name],
                                       value))
    /\ UNCHANGED <<projects, items, conv_call, conv_result>>
    /\ UNCHANGED <<boq_breakdowns, parent_list, boq_lists, main_project,
                   app_crashed>>
    /\ UNCHANGED <<ps_vars, codec_vars, recent_vars>>

\* MainController._on_convert_phase with the dialog accepted: the project is
\* converted, a deep copy of the present project is kept as old_project, and
\* the PhaseConvertCommand is pushed. The push runs the command's redo, whose
\* set_project clears the undo stack, and then appends the command
OnConvertPhase(target) ==
    /\ AppRunning
    /\ IsNone(conv_call)
    /\ target # projects[Val(main_project)].phase
    /\ LET pid == Val(main_project)
           r == convert(projects, cats, items, pid, target)
           old == deepcopy(projects, cats, items, pid, OldProjectOffset)
           old_project == r.result.project + 1
           cmd == [kind |-> "PhaseConvertCommand",
                   old_project |-> old_project,
                   new_project |-> r.result.project]
       IN  /\ projects' = (old_project :> old.projects[old.project]) @@ r.projects
           /\ cats' = old.cats @@ r.cats
           /\ items' = old.items @@ r.items
           /\ conv_result' = Some(r.result)
           /\ main_project' = Some(cmd.new_project)
           /\ undo_stack' = <<cmd>>
           /\ undo_index' = 1
    /\ conv_call' = Some([project |-> Val(main_project), target_phase |-> target])
    /\ UNCHANGED <<boq_breakdowns, parent_list, boq_lists, app_crashed>>
    /\ UNCHANGED <<ps_vars, codec_vars, recent_vars>>

\* MainController._do_undo. The undo of a PhaseConvertCommand calls
\* set_project, whose undo_stack.clear() deletes every command of the stack,
\* the running one too; QUndoStack.undo then goes on with the deleted
\* command, which either goes unnoticed or ends the process
DoUndo ==
    /\ AppRunning
    /\ undo_index > 0
    /\ LET cmd == undo_stack[undo_index]
       IN  CASE cmd.kind = "EditItemPropertyCommand" ->
                    /\ items' = [items EXCEPT ![cmd.target][cmd.property_name] =
                                                  cmd.old_value]
                    /\ undo_index' = undo_index - 1
                    /\ UNCHANGED <<cats, undo_stack, main_project, app_crashed>>
             [] cmd.kind = "EditCategoryPropertyCommand" ->
                    /\ cats' = [cats EXCEPT ![cmd.target][cmd.property_name] =
                                                cmd.old_value]
                    /\ undo_index' = undo_index - 1
                    /\ UNCHANGED <<items, undo_stack, main_project, app_crashed>>
             [] cmd.kind = "PhaseConvertCommand" ->
                    /\ main_project' = Some(cmd.old_project)
                    /\ undo_stack' = <<>>
                    /\ undo_index' = 0
                    /\ app_crashed' \in BOOLEAN
                    /\ UNCHANGED <<cats, items>>
    /\ UNCHANGED <<projects, conv_call, conv_result>>
    /\ UNCHANGED <<boq_breakdowns, parent_list, boq_lists>>
    /\ UNCHANGED <<ps_vars, codec_vars, recent_vars>>

\* MainController._do_redo
DoRedo ==
    /\ AppRunning
    /\ undo_index < Len(undo_stack)
    /\ LET cmd == undo_stack[undo_index + 1]
       IN  CASE cmd.kind = "EditItemPropertyCommand" ->
                    /\ items' = [items EXCEPT ![cmd.target][cmd.property_name] =
                                                  cmd.new_value]
                    /\ undo_index' = undo_index + 1
                    /\ UNCHANGED <<cats, undo_stack, main_project, app_crashed>>
             [] cmd.kind = "EditCategoryPropertyCommand" ->
                    /\ cats' = [cats EXCEPT ![cmd.target][cmd.property_name] =
                                                cmd.new_value]
                    /\ undo_index' = undo_index + 1
                    /\ UNCHANGED <<items, undo_stack, main_project, app_crashed>>
             [] cmd.kind = "PhaseConvertCommand" ->
                    /\ main_project' = Some(cmd.new_project)
                    /\ undo_stack' = <<>>
                    /\ undo_index' = 0
                    /\ app_crashed' \in BOOLEAN
                    /\ UNCHANGED <<cats, items>>
    /\ UNCHANGED <<projects, conv_call, conv_result>>
    /\ UNCHANGED <<boq_breakdowns, parent_list, boq_lists>>
    /\ UNCHANGED <<ps_vars, codec_vars, recent_vars>>

\* the window with a project open: category 1 ("01") holds item 1 and
\* subcategory 2 ("02"), which holds item 2; nothing edited yet
InitApp ==
    /\ \E ph \in {"X84"} :
           projects = OrigProject :>
               [phase |-> ph,
                boq |-> Some([info_totals |-> Some(Totals), categories |-> <<1>>])]
    /\ cats = (1 :> [rno_part |-> <<"01">>, subcategories |-> <<2>>,
                     items |-> <<1>>])
           @@ (2 :> [rno_part |-> <<"02">>, subcategories |-> <<>>,
                     items |-> <<2>>])
    /\ items = (1 :> [NewItem EXCEPT !.rno_part = <<"01">>, !.qty = Some(500),
                                     !.up = Some(10), !.it = Some(5)])
               @@ (2 :> [NewItem EXCEPT !.rno_part = <<"02">>])
    /\ conv_call = None
    /\ conv_result = None
    /\ main_project = Some(OrigProject)
    /\ app_crashed = FALSE
    /\ undo_stack = <<>>
    /\ undo_index = 0
    /\ boq_breakdowns = DEFAULT_BREAKDOWNS
    /\ parent_list = <<>>
    /\ boq_lists = <<>>
    /\ PSIdle
    /\ CodecIdle
    /\ RecentIdle

NextApp ==
    \/ \E i \in DOMAIN items, property_name \in {"qu", "rno_part"},
          value \in QuValues \cup RnoValues :
           /\ value \in PropertyValues(property_name)
           /\ OnItemFieldChanged(i, property_name, value)
    \/ \E c \in DOMAIN cats, value \in RnoValues :
           OnCategoryFieldChanged(c, "rno_part", value)
    \/ \E t \in ConvertTargets : OnConvertPhase(t)
    \/ DoUndo
    \/ DoRedo

SpecApp == InitApp /\ [][NextApp]_vars

-----------------------------------------------------------------------------
(* RecentFilesManager: the recently opened files, kept in QSettings *)

MAX_RECENT_FILES == 10

\* bounds: the files opened before the behaviour starts, and the calls of
\* add_file in it
PreAdded == 9

MaxAdds == 3

\* the file number n of the working directory; file 0 never exists
FilePath(n) == <<"/d", n>>

\* str(Path(file_path).resolve()): a relative path is taken from the
\* working directory
resolve(file_path) ==
    IF file_path[1] = "." THEN <<"/d">> \o Tail(file_path) ELSE file_path

\* QSettings.value(SETTINGS_KEY, []): the stored list, which QSettings may
\* hand back as a plain str when it holds one path or none
SettingsValue(stored) ==
    {[type |-> "list", value |-> stored]}
        \cup (IF Len(stored) = 1 THEN {[type |-> "str", value |-> stored[1]]}
              ELSE IF stored = <<>> THEN {[type |-> "str", value |-> <<>>]}
              ELSE {})

FirstN(seq, n) == SubSeq(seq, 1, IF Len(seq) < n THEN Len(seq) ELSE n)

Without(seq, x) ==
    LET Keep(f) == f # x IN SelectSeq(seq, Keep)

\* RecentFilesManager.get_recent_files, files being what QSettings gives
get_recent_files(files, disk) ==
    LET list == IF files.type = "str"
                THEN (IF files.value # <<>> THEN <<files.value>> ELSE <<>>)
                ELSE files.value
        Exists(f) == f \in disk
    IN  FirstN(SelectSeq(list, Exists), MAX_RECENT_FILES)

\* an add_file that does not drop the path from its old place
add_file_keeps_old_entry(files, disk, file_path) ==
    LET abs_path == resolve(file_path)
    IN  FirstN(<<abs_path>> \o get_recent_files(files, disk), MAX_RECENT_FILES)

\* RecentFilesManager.add_file: the list it stores
add_file(files, disk, file_path) ==
    LET abs_path == resolve(file_path)
    IN  FirstN(<<abs_path>> \o Without(get_recent_files(files, disk), abs_path),
               MAX_RECENT_FILES)

\* the paths given to add_file: a file that does not exist, the oldest and
\* the newest file of the list, two files not yet listed, and the oldest
\* file by a relative path
AddInputs ==
    {FilePath(0), FilePath(1), FilePath(PreAdded), FilePath(PreAdded + 1),
     FilePath(PreAdded + 2), <<".", 1>>}

\* the files that are deleted and written again while the program runs
Volatile == {FilePath(PreAdded), FilePath(PreAdded + 1)}

\* ProjectController._open_file, _do_save: add_file(file_path)
AddFile(file_path) ==
    /\ Len(recent_log) < PreAdded + MaxAdds
    /\ \E files \in SettingsValue(recent_settings) :
           recent_settings' = add_file(files, recent_disk, file_path)
    /\ recent_log' = Append(recent_log, resolve(file_path))
    /\ UNCHANGED recent_disk
    /\ UNCHANGED <<conv_vars, ps_vars, codec_vars, edit_vars>>

\* RecentFilesManager.clear
ClearRecent ==
    /\ recent_settings' = <<>>
    /\ UNCHANGED <<recent_disk, recent_log>>
    /\ UNCHANGED <<conv_vars, ps_vars, codec_vars, edit_vars>>

\* the environment deletes a file
DeleteFile(f) ==
    /\ f \in recent_disk
    /\ recent_disk' = recent_disk \ {f}
    /\ UNCHANGED <<recent_settings, recent_log>>
    /\ UNCHANGED <<conv_vars, ps_vars, codec_vars, edit_vars>>

\* the environment writes a file
CreateFile(f) ==
    /\ f \notin recent_disk
    /\ recent_disk' = recent_disk \cup {f}
    /\ UNCHANGED <<recent_settings, recent_log>>
    /\ UNCHANGED <<conv_vars, ps_vars, codec_vars, edit_vars>>

\* files 1 to PreAdded have been opened in that order, and every file but
\* file 0 exists
InitRecent ==
    /\ recent_log = [k \in 1..PreAdded |-> FilePath(k)]
    /\ recent_settings = [k \in 1..PreAdded |-> FilePath(PreAdded + 1 - k)]
    /\ recent_disk = {FilePath(k) : k \in 1..(PreAdded + 2)}
    /\ ConvIdle
    /\ PSIdle
    /\ CodecIdle
    /\ EditIdle

NextRecent ==
    \/ \E file_path \in AddInputs : AddFile(file_path)
    \/ ClearRecent
    \/ \E f \in Volatile : DeleteFile(f)
    \/ \E f \in Volatile : CreateFile(f)

SpecRecent == InitRecent /\ [][NextRecent]_vars

-----------------------------------------------------------------------------
(* Auto-numbering: the ordinal part given to a new category *)

\* bounds: the length of a mask level, and the siblings a list starts with
\* and grows to
MaxLevelLength == 2

MaxStartSiblings == 2

MaxSiblings == 3

\* a mask level as generate_next_rno reads it: length and numeric
MaskLevel(type, length, numeric) ==
    BoQBkdn(type, length) @@ [numeric |-> numeric]

\* str.zfill(width): zeros in front up to width, nothing cut
RECURSIVE zfill(_, _)
zfill(str, width) ==
    IF Len(str) >= width THEN str ELSE zfill(<<"0">> \o str, width)

\* the loop over existing_parts: the largest int(part) above 0, parts that
\* int() rejects being skipped
RECURSIVE MaxNum(_, _)
MaxNum(existing_parts, max_num) ==
    IF existing_parts = <<>> THEN max_num
    ELSE LET num == ParseInt(Head(existing_parts))
         IN  MaxNum(Tail(existing_parts),
                    IF ~IsNone(num) /\ Val(num) > max_num THEN Val(num)
                    ELSE max_num)

\* generate_next_rno: both branches, numeric or not, are the same code
generate_next_rno(existing_parts, mask_level) ==
    IF mask_level.numeric
    THEN zfill(NatStr(MaxNum(existing_parts, 0) + 1), mask_level.length)
    ELSE zfill(NatStr(MaxNum(existing_parts, 0) + 1), mask_level.length)

\* _get_mask_level_for_category
get_mask_level_for_category(breakdowns, depth) ==
    LET IsLevel(b) == b.type \in {<<"Lot">>, <<"BoQLevel">>}
        boq_levels == SelectSeq(breakdowns, IsLevel)
    IN  IF depth < Len(boq_levels) THEN Some(boq_levels[depth + 1]) ELSE None

\* the ordinal parts found among the siblings: numbers with and without
\* leading zeros, the largest numbers of one and two digits, and parts that
\* are not numbers
RnoParts ==
    {<<"0", "1">>, <<"0", "5">>, <<"9">>, <<"9", "9">>, <<"A", "1">>, <<>>}

StartSiblings ==
    UNION {[1..n -> RnoParts] : n \in 0..MaxStartSiblings}

\* the masks: one category level, numeric or not, and the level of the items
RnoMasks ==
    {<<MaskLevel(<<"BoQLevel">>, length, numeric),
       MaskLevel(<<"Item">>, 4, TRUE)>> :
        length \in 1..MaxLevelLength, numeric \in BOOLEAN}

\* BoQController.add_category with nothing selected: the new category gets
\* the next ordinal part of the root list and is appended by the redo of
\* the AddCategoryCommand that execute_command pushes
add_category ==
    /\ Len(parent_list) < MaxSiblings
    /\ LET mask_level == get_mask_level_for_category(boq_breakdowns, 0)
           existing == [k \in 1..Len(parent_list) |-> parent_list[k].rno_part]
           rno_part == IF ~IsNone(mask_level)
                       THEN generate_next_rno(existing, Val(mask_level))
                       ELSE <<>>
           new_cat == [rno_part |-> rno_part,
                       label |-> <<"Neue", " ", "Kategorie">>]
       IN  /\ parent_list' = Append(parent_list, new_cat)
           /\ Push([kind |-> "AddCategoryCommand", category |-> new_cat,
                    index |-> Len(parent_list)])
    /\ UNCHANGED <<boq_breakdowns, boq_lists, main_project, app_crashed>>
    /\ UNCHANGED <<conv_vars, ps_vars, codec_vars, recent_vars>>

InitRno ==
    /\ boq_breakdowns \in RnoMasks
    /\ \E parts \in StartSiblings :
           parent_list = [k \in 1..Len(parts) |->
                             [rno_part |-> parts[k], label |-> <<>>]]
    /\ undo_stack = <<>>
    /\ undo_index = 0
    /\ boq_lists = <<>>
    /\ main_project = None /\ app_crashed = FALSE
    /\ ConvIdle
    /\ PSIdle
    /\ CodecIdle
    /\ RecentIdle

NextRno == add_category

SpecRno == InitRno /\ [][NextRno]_vars

-----------------------------------------------------------------------------
(* The BoQ tree and the commands that change its structure *)

\* The lists of the tree are the values of boq_lists: the list of root
\* categories, and the subcategories and the items of every category object.
Root == <<"boq", "categories">>

Subs(c) == <<c, "subcategories">>

Items(c) == <<c, "items">>

CategoryObjects(lists) ==
    {key[1] : key \in {q \in DOMAIN lists : q[2] = "items"}}

\* BoQTreeModel._build_category_node over the categories of a list from
\* position k on: the tree nodes in the order of the view, a category, the
\* nodes of its subcategories, then its items. A node holds its object and
\* the list of its parent that holds the object.
RECURSIVE build_nodes(_, _, _, _)
build_nodes(lists, list, k, fuel) ==
    IF k > Len(lists[list]) \/ fuel = 0 THEN <<>>
    ELSE LET cat == lists[list][k]
         IN  <<[data |-> cat, node_type |-> "category", list |-> list]>> \o
             build_nodes(lists, Subs(cat), 1, fuel - 1) \o
             [j \in 1..Len(lists[Items(cat)]) |->
                 [data |-> lists[Items(cat)][j], node_type |-> "item",
                  list |-> Items(cat)]] \o
             build_nodes(lists, list, k + 1, fuel)

\* the nodes of the tree view after refresh_tree
TreeNodes(lists) ==
    build_nodes(lists, Root, 1, Cardinality(CategoryObjects(lists)))

\* BoQTreeModel._find_node_by_id: the object of the first node of that type
\* whose object has the id; objects that are equal by value have the same id
find_node_by_id(nodes, node_id, node_type) ==
    LET found == SelectSeq(nodes, LAMBDA n : n.node_type = node_type /\
                                             NodeEq(n.data, node_id))
    IN  IF found = <<>> THEN None ELSE Some(Head(found).data)

\* MainController._search_item_in_categories over the categories of a list
\* from position k on
RECURSIVE search_item_in_categories(_, _, _, _, _)
search_item_in_categories(lists, list, k, item, fuel) ==
    IF k > Len(lists[list]) \/ fuel = 0 THEN None
    ELSE LET cat == lists[list][k]
             result == search_item_in_categories(lists, Subs(cat), 1, item,
                                                 fuel - 1)
         IN  IF Contains(lists[Items(cat)], item) THEN Some(Items(cat))
             ELSE IF ~IsNone(result) THEN result
             ELSE search_item_in_categories(lists, list, k + 1, item, fuel)

\* MainController._search_cat_in_categories
RECURSIVE search_cat_in_categories(_, _, _, _, _)
search_cat_in_categories(lists, list, k, target, fuel) ==
    IF k > Len(lists[list]) \/ fuel = 0 THEN None
    ELSE LET cat == lists[list][k]
             result == search_cat_in_categories(lists, Subs(cat), 1, target,
                                                fuel - 1)
         IN  IF Contains(lists[Subs(cat)], target) THEN Some(Subs(cat))
             ELSE IF ~IsNone(result) THEN result
             ELSE search_cat_in_categories(lists, list, k + 1, target, fuel)

\* MainController._find_category_parent_list
find_category_parent_list(lists, cat) ==
    IF Contains(lists[Root], cat) THEN Some(Root)
    ELSE search_cat_in_categories(lists, Root, 1, cat,
                                  Cardinality(CategoryObjects(lists)))

\* MainController._find_item_parent_list
find_item_parent_list(lists, item) ==
    search_item_in_categories(lists, Root, 1, item,
                              Cardinality(CategoryObjects(lists)))

\* The objects a command makes are named after the position the command
\* takes on the undo stack: a new category, a new position, and the deep
\* copies of the objects of the file. Each has a fresh uuid and equals no
\* other object.
NewCategoryNames == <<"nc1", "nc2", "nc3">>

NewItemNames == <<"ni1", "ni2", "ni3">>

CopyNames ==
    [c1 |-> <<"c1_1", "c1_2", "c1_3">>, c2 |-> <<"c2_1", "c2_2", "c2_3">>,
     c3 |-> <<"c3_1", "c3_2", "c3_3">>, i1 |-> <<"i1_1", "i1_2", "i1_3">>,
     i2 |-> <<"i2_1", "i2_2", "i2_3">>, i3 |-> <<"i3_1", "i3_2", "i3_3">>]

\* the categories at and below a category
RECURSIVE CategoriesBelow(_, _, _)
CategoriesBelow(lists, c, fuel) ==
    IF fuel = 0 THEN {c}
    ELSE {c} \cup UNION {CategoriesBelow(lists, lists[Subs(c)][k], fuel - 1) :
                            k \in 1..Len(lists[Subs(c)])}

\* deepcopy(source_category) with _assign_new_ids: a copy of every category
\* at and below the source and of every position in them, with the lists of
\* the copies holding the copies in the same order
deepcopy_category(lists, source_category, n) ==
    LET below == CategoriesBelow(lists, source_category,
                                 Cardinality(CategoryObjects(lists)))
        Copied(list) == [k \in 1..Len(list) |-> CopyNames[list[k]][n]]
        subs == [key \in {Subs(CopyNames[c][n]) : c \in below} |->
                    Copied(lists[Subs(CHOOSE c \in below :
                                          CopyNames[c][n] = key[1])])]
        positions == [key \in {Items(CopyNames[c][n]) : c \in below} |->
                     Copied(lists[Items(CHOOSE c \in below :
                                            CopyNames[c][n] = key[1])])]
    IN  subs @@ positions @@ lists

\* the objects that can be duplicated: objects of the file with nothing but
\* objects of the file below them
CanCopy(lists, x) ==
    IF x \in CategoryObjects(lists)
    THEN \A c \in CategoriesBelow(lists, x, Cardinality(CategoryObjects(lists))) :
             /\ c \in DOMAIN CopyNames
             /\ \A k \in 1..Len(lists[Items(c)]) :
                    lists[Items(c)][k] \in DOMAIN CopyNames
    ELSE x \in DOMAIN CopyNames

\* AddCategoryCommand.redo and AddItemCommand.redo, the same code on
\* parent_list and on parent_category.items. Python's index counts from 0.
AddCommand_redo(lists, cmd) ==
    IF cmd.index = -1 \/ cmd.index >= Len(lists[cmd.list])
    THEN [lists |-> [lists EXCEPT ![cmd.list] = Append(@, cmd.node)],
          cmd |-> [cmd EXCEPT !.index = Len(lists[cmd.list])]]
    ELSE [lists |-> [lists EXCEPT ![cmd.list] =
                        ListInsert(@, cmd.index, cmd.node)],
          cmd |-> cmd]

\* AddCategoryCommand.undo and AddItemCommand.undo. A remove of an element
\* the list does not hold raises ValueError, which ends the method there.
AddCommand_undo(lists, cmd) ==
    IF ~Contains(lists[cmd.list], cmd.node) THEN [lists |-> lists, cmd |-> cmd]
    ELSE [lists |-> [lists EXCEPT ![cmd.list] = ListRemove(@, cmd.node)],
          cmd |-> cmd]

\* DeleteCategoryCommand.redo and DeleteItemCommand.redo
DeleteCommand_redo(lists, cmd) ==
    IF ~Contains(lists[cmd.list], cmd.node) THEN [lists |-> lists, cmd |-> cmd]
    ELSE [lists |-> [lists EXCEPT ![cmd.list] = ListRemove(@, cmd.node)],
          cmd |-> [cmd EXCEPT !.index = ListIndex(lists[cmd.list],
                                                  cmd.node) - 1]]

\* DeleteCategoryCommand.undo and DeleteItemCommand.undo
DeleteCommand_undo(lists, cmd) ==
    [lists |-> [lists EXCEPT ![cmd.list] = ListInsert(@, cmd.index, cmd.node)],
     cmd |-> cmd]

\* DuplicateCategoryCommand.redo and DuplicateItemCommand.redo: the copy is
\* made by the first redo and put behind the first element that equals the
\* source
DuplicateCommand_redo(lists, cmd) ==
    LET made == IF ~IsNone(cmd.new) THEN lists
                ELSE IF cmd.kind = "DuplicateCategoryCommand"
                THEN deepcopy_category(lists, cmd.node, cmd.n)
                ELSE lists
        new == CopyNames[cmd.node][cmd.n]
    IN  IF ~Contains(made[cmd.list], cmd.node)
        THEN [lists |-> made, cmd |-> [cmd EXCEPT !.new = Some(new)]]
        ELSE [lists |-> [made EXCEPT ![cmd.list] =
                            ListInsert(@, ListIndex(made[cmd.list], cmd.node),
                                       new)],
              cmd |-> [cmd EXCEPT !.new = Some(new)]]

\* DuplicateCategoryCommand.undo and DuplicateItemCommand.undo
DuplicateCommand_undo(lists, cmd) ==
    IF ~Contains(lists[cmd.list], Val(cmd.new))
    THEN [lists |-> lists, cmd |-> cmd]
    ELSE [lists |-> [lists EXCEPT ![cmd.list] = ListRemove(@, Val(cmd.new))],
          cmd |-> cmd]

\* MoveNodeCommand.redo and undo on a list of the tree; list.index raises
\* ValueError for an element the list does not hold
MoveCommand_redo(lists, cmd) ==
    IF ~Contains(lists[cmd.list], cmd.item) THEN [lists |-> lists, cmd |-> cmd]
    ELSE [lists |-> [lists EXCEPT ![cmd.list] = MoveNodeCommand_redo(@, cmd)],
          cmd |-> cmd]

MoveCommand_undo(lists, cmd) ==
    IF ~Contains(lists[cmd.list], cmd.item) THEN [lists |-> lists, cmd |-> cmd]
    ELSE [lists |-> [lists EXCEPT ![cmd.list] = MoveNodeCommand_undo(@, cmd)],
          cmd |-> cmd]

\* QUndoCommand.redo and undo of the command classes of the tree
Command_redo(lists, cmd) ==
    CASE cmd.kind \in {"AddCategoryCommand", "AddItemCommand"} ->
             AddCommand_redo(lists, cmd)
      [] cmd.kind \in {"DeleteCategoryCommand", "DeleteItemCommand"} ->
             DeleteCommand_redo(lists, cmd)
      [] cmd.kind \in {"DuplicateCategoryCommand", "DuplicateItemCommand"} ->
             DuplicateCommand_redo(lists, cmd)
      [] cmd.kind = "MoveNodeCommand" -> MoveCommand_redo(lists, cmd)
      [] cmd.kind = "DragDropMoveCommand" ->
             [lists |-> DragDropMoveCommand_redo(lists, cmd), cmd |-> cmd]

Command_undo(lists, cmd) ==
    CASE cmd.kind \in {"AddCategoryCommand", "AddItemCommand"} ->
             AddCommand_undo(lists, cmd)
      [] cmd.kind \in {"DeleteCategoryCommand", "DeleteItemCommand"} ->
             DeleteCommand_undo(lists, cmd)
      [] cmd.kind \in {"DuplicateCategoryCommand", "DuplicateItemCommand"} ->
             DuplicateCommand_undo(lists, cmd)
      [] cmd.kind = "MoveNodeCommand" -> MoveCommand_undo(lists, cmd)
      [] cmd.kind = "DragDropMoveCommand" ->
             [lists |-> DragDropMoveCommand_undo(lists, cmd), cmd |-> cmd]

\* the number of commands that is explored: they are executed one after the
\* other, and undone and redone from then on
MaxTreeCommands == 2

\* MainController.execute_command: the command is pushed, which runs its
\* redo, and the tree view is rebuilt. The command also records, for the
\* properties, the lists before and after its first redo.
ExecuteCommand(lists, cmd) ==
    LET r == Command_redo(lists, cmd)
    IN  /\ undo_index < MaxTreeCommands
        /\ undo_index = Len(undo_stack)
        /\ Push(r.cmd @@ [before |-> boq_lists, after |-> r.lists])
        /\ boq_lists' = r.lists
        /\ UNCHANGED <<boq_breakdowns, parent_list, main_project, app_crashed>>
        /\ UNCHANGED <<conv_vars, ps_vars, codec_vars, recent_vars>>

\* the selection of the tree view: nothing, or a node of the tree
Selections(lists) == {None} \cup {Some(n) : n \in Range(TreeNodes(lists))}

IsSelected(sel, node_type) == ~IsNone(sel) /\ Val(sel).node_type = node_type

\* BoQController.add_category, the new category without its number
AddCategory(sel) ==
    LET new_cat == NewCategoryNames[undo_index + 1]
        made == (Subs(new_cat) :> <<>>) @@ (Items(new_cat) :> <<>>) @@ boq_lists
    IN  ExecuteCommand(made,
            [kind |-> "AddCategoryCommand",
             list |-> IF IsSelected(sel, "category") THEN Subs(Val(sel).data)
                      ELSE Root,
             node |-> new_cat, index |-> -1])

\* BoQController.add_item: into the selected category, or into the category
\* of the selected position
AddItem(sel) ==
    /\ ~IsNone(sel)
    /\ ExecuteCommand(boq_lists,
           [kind |-> "AddItemCommand",
            list |-> IF IsSelected(sel, "category") THEN Items(Val(sel).data)
                     ELSE Val(sel).list,
            node |-> NewItemNames[undo_index + 1], index |-> -1])

\* BoQController.delete_selected, the question answered with Yes
DeleteSelected(sel) ==
    /\ ~IsNone(sel)
    /\ ExecuteCommand(boq_lists,
           [kind |-> IF IsSelected(sel, "category")
                     THEN "DeleteCategoryCommand" ELSE "DeleteItemCommand",
            list |-> Val(sel).list, node |-> Val(sel).data, index |-> -1])

\* BoQController.move_up and move_down: no command at the edge of the list
MoveSelected(sel, direction) ==
    /\ ~IsNone(sel)
    /\ LET parent_list_ == boq_lists[Val(sel).list]
           idx == ListIndex(parent_list_, Val(sel).data) - 1
       IN  /\ IF direction = -1 THEN idx > 0 ELSE idx < Len(parent_list_) - 1
           /\ ExecuteCommand(boq_lists,
                  [kind |-> "MoveNodeCommand", list |-> Val(sel).list,
                   item |-> Val(sel).data, direction |-> direction])

\* BoQController.duplicate_selected
DuplicateSelected(sel) ==
    /\ ~IsNone(sel)
    /\ CanCopy(boq_lists, Val(sel).data)
    /\ ExecuteCommand(boq_lists,
           [kind |-> IF IsSelected(sel, "category")
                     THEN "DuplicateCategoryCommand"
                     ELSE "DuplicateItemCommand",
            list |-> Val(sel).list, node |-> Val(sel).data,
            new |-> None, n |-> undo_index + 1])

\* the rows of a drop that are explored
MaxDropRow == 4

\* BoQTreeModel.dropMimeData and MainController._on_drop_requested: the node
\* dragged arrives as its type and id, parent is nothing for the root or a
\* category node, and row is a place among the children of the parent
\* (a drop onto the parent itself gives -1 and counts as 0)
OnDropRequested(dragged, parent, row) ==
    LET nodes == TreeNodes(boq_lists)
        source == find_node_by_id(nodes, dragged.data, dragged.node_type)
        source_list == IF dragged.node_type = "item"
                       THEN find_item_parent_list(boq_lists, Val(source))
                       ELSE find_category_parent_list(boq_lists, Val(source))
        target_list == IF IsNone(parent) THEN Root
                       ELSE IF dragged.node_type = "item"
                       THEN Items(Val(parent).data)
                       ELSE Subs(Val(parent).data)
        children == IF IsNone(parent) THEN Len(boq_lists[Root])
                    ELSE Len(boq_lists[Subs(Val(parent).data)]) +
                         Len(boq_lists[Items(Val(parent).data)])
    IN  /\ ~(dragged.node_type = "item" /\ IsNone(parent))
        /\ IF IsNone(parent) THEN TRUE
           ELSE Val(parent).node_type = "category"
        /\ row \in -1..children
        /\ ~IsNone(source)
        /\ ~IsNone(source_list)
        /\ ExecuteCommand(boq_lists,
               [kind |-> "DragDropMoveCommand",
                source_list |-> Val(source_list),
                source_item |-> Val(source),
                source_index |-> ListIndex(boq_lists[Val(source_list)],
                                           Val(source)) - 1,
                target_list |-> target_list,
                target_index |-> IF row >= 0 THEN row ELSE 0])

\* MainController._do_undo with a command of the tree on top
UndoCommand ==
    /\ undo_index > 0
    /\ LET r == Command_undo(boq_lists, undo_stack[undo_index])
       IN  /\ boq_lists' = r.lists
           /\ undo_stack' = [undo_stack EXCEPT ![undo_index] = r.cmd]
    /\ undo_index' = undo_index - 1
    /\ UNCHANGED <<boq_breakdowns, parent_list, main_project, app_crashed>>
    /\ UNCHANGED <<conv_vars, ps_vars, codec_vars, recent_vars>>

\* MainController._do_redo with an undone command of the tree
RedoCommand ==
    /\ undo_index < Len(undo_stack)
    /\ LET r == Command_redo(boq_lists, undo_stack[undo_index + 1])
       IN  /\ boq_lists' = r.lists
           /\ undo_stack' = [undo_stack EXCEPT ![undo_index + 1] = r.cmd]
    /\ undo_index' = undo_index + 1
    /\ UNCHANGED <<boq_breakdowns, parent_list, main_project, app_crashed>>
    /\ UNCHANGED <<conv_vars, ps_vars, codec_vars, recent_vars>>

\* the trees a file gives: two root categories, a subcategory, and the
\* positions of the first category, among them two that are equal by value
FileItems == {<<"i1", "i3">>, <<"i1", "i2">>, <<"i1", "i3", "i2">>}

InitTree ==
    /\ \E its \in FileItems :
           boq_lists = (Root :> <<"c1", "c2">>) @@
                       (Subs("c1") :> <<"c3">>) @@ (Items("c1") :> its) @@
                       (Subs("c2") :> <<>>) @@
                       (Items("c2") :> IF Len(its) = 2 /\ its[2] = "i2"
                                       THEN <<"i3">> ELSE <<>>) @@
                       (Subs("c3") :> <<>>) @@ (Items("c3") :> <<>>)
    /\ boq_breakdowns = DEFAULT_BREAKDOWNS
    /\ parent_list = <<>>
    /\ undo_stack = <<>>
    /\ undo_index = 0
    /\ main_project = None /\ app_crashed = FALSE
    /\ ConvIdle
    /\ PSIdle
    /\ CodecIdle
    /\ RecentIdle

NextTree ==
    \/ \E sel \in Selections(boq_lists) : AddCategory(sel)
    \/ \E sel \in Selections(boq_lists) : AddItem(sel)
    \/ \E sel \in Selections(boq_lists) : DeleteSelected(sel)
    \/ \E sel \in Selections(boq_lists), direction \in {-1, 1} :
           MoveSelected(sel, direction)
    \/ \E sel \in Selections(boq_lists) : DuplicateSelected(sel)
    \/ \E dragged \in Range(TreeNodes(boq_lists)),
          parent \in Selections(boq_lists), row \in -1..MaxDropRow :
           OnDropRequested(dragged, parent, row)
    \/ UndoCommand
    \/ RedoCommand

SpecTree == InitTree /\ [][NextTree]_vars

-----------------------------------------------------------------------------
(* Properties of the codec *)

\* the elements with a given tag in a tree, in document order
RECURSIVE Descendants(_, _)
RECURSIVE DescendantsOfKids(_, _)
Descendants(elem, tag) ==
    (IF elem.tag = tag THEN <<elem>> ELSE <<>>) \o
    DescendantsOfKids(elem.kids, tag)

DescendantsOfKids(kids, tag) ==
    IF kids = <<>> THEN <<>>
    ELSE Descendants(Head(kids), tag) \o DescendantsOfKids(Tail(kids), tag)

\* the Item and MarkupItem elements of a tree
PositionElements(root) ==
    Range(Descendants(root, "Item")) \cup Range(Descendants(root, "MarkupItem"))

ChildTags(elem) == [k \in 1..Len(elem.kids) |-> elem.kids[k].tag]

Saved == codec_built # None /\ ~Val(codec_built).raised

SavedFile == Val(codec_file)

\* the tags that stand for a capability of the phase rules
QuantityTags == {"Qty", "QtyTBD"}

PriceTags == {"UP", "DiscountPcnt"} \cup Range(UPCompTags)

TotalTags == {"IT", "Totals"}

\* C1: a file that write produced holds, in no position and no category, a
\* quantity, price, total, not-offered or bid-comment element that the rules
\* of the project's phase mark inapplicable
C1_NoInapplicableElement ==
    Saved =>
        LET rules == get_rules(codec_project.phase)
            holders == PositionElements(SavedFile) \cup
                       Range(Descendants(SavedFile, "BoQCtgy")) \cup
                       Range(Descendants(SavedFile, "BoQInfo"))
        IN  \A e \in holders : \A tag \in Range(ChildTags(e)) :
                /\ tag \in QuantityTags => rules.has_quantities
                /\ tag \in PriceTags => rules.has_prices
                /\ tag \in TotalTags => rules.has_totals
                /\ tag = "NotOffered" => rules.allows_not_offered
                /\ tag = "BidComm" => codec_project.phase = "X84"

\* what a phase's rules strip from a position on write
StrippedItem(item, phase) ==
    LET rules == get_rules(phase)
    IN  [item EXCEPT
            !.qty = IF rules.has_quantities THEN @ ELSE None,
            !.qty_tbd = IF rules.has_quantities THEN @ ELSE FALSE,
            !.up = IF rules.has_prices THEN @ ELSE None,
            !.up_components = IF rules.has_prices THEN @ ELSE <<>>,
            !.discount_pcnt = IF rules.has_prices THEN @ ELSE None,
            !.it = IF rules.has_totals THEN @ ELSE None,
            !.not_offered = IF rules.allows_not_offered THEN @ ELSE FALSE,
            !.bid_comments = IF phase = "X84" THEN @ ELSE <<>>]

\* the rendered forms of the texts are derived data, left out of comparisons
WithoutHtml(item) ==
    [item EXCEPT !.description.outline_html = <<>>,
                 !.description.detail_html = <<>>,
                 !.add_texts = [k \in 1..Len(@) |->
                                   [@[k] EXCEPT !.outline_html = <<>>,
                                                !.detail_html = <<>>]]]

\* C2: saving a project succeeds, and reading the saved file gives back the
\* ordinal, label and positions of its category, in order and field by
\* field, except for the fields the phase's rules strip
C2_RoundTrip ==
    codec_built # None =>
        /\ ~Val(codec_built).raised
        /\ codec_read # None =>
              LET p == codec_project
                  r == Val(codec_read)
                  pc == Val(p.boq).categories
                  rc == Val(r.boq).categories
              IN  /\ r.phase = p.phase
                  /\ Len(rc) = Len(pc)
                  /\ \A c \in 1..Len(pc) :
                        /\ rc[c].rno_part = pc[c].rno_part
                        /\ rc[c].label = pc[c].label
                        /\ Len(rc[c].items) = Len(pc[c].items)
                        /\ \A i \in 1..Len(pc[c].items) :
                              WithoutHtml(rc[c].items[i]) =
                              WithoutHtml(StrippedItem(pc[c].items[i], p.phase))

\* the child sequences the schema fixes
ItemSequence ==
    <<"ALNGroupNo", "ALNSerNo", "Provis", "LumpSumItem", "NotAppl",
      "NotOffered", "HourIt", "KeyIt", "FreeQty", "UPBkdn", "MarkupIt",
      "AddPlIT", "RefDescr", "RefRNo", "RefPerfNo", "QtyTBD", "Qty",
      "QtySplit", "PredQty", "QU", "CtlgAssign", "UP", "UPComp1", "UPComp2",
      "UPComp3", "UPComp4", "UPComp5", "UPComp6", "DiscountPcnt", "IT", "VAT",
      "Description", "BidComm", "TextCompl", "SumDescr", "SubDescr", "AddText">>

MarkupItemSequence ==
    <<"RefDescr", "RefRNo", "RefPerfNo", "MarkupType", "MarkupSubQty", "Qty",
      "PredQty", "QU", "ITMarkup", "Markup", "UP", "IT", "Description",
      "CtlgAssign", "AddText">>

\* every tag is one of the sequence and no tag comes before one that the
\* sequence puts earlier
InSequence(tags, sequence) ==
    /\ \A k \in 1..Len(tags) : tags[k] \in Range(sequence)
    /\ \A j, k \in 1..Len(tags) :
          j < k =>
              LET at(tag) == CHOOSE n \in 1..Len(sequence) : sequence[n] = tag
              IN  at(tags[j]) <= at(tags[k])

-----------------------------------------------------------------------------
(* Properties of the reader *)

\* the file given to the last _open_file, and what read made of it
OpenedRoot == Val(codec_opened).root

OpenedResult == Val(codec_opened).result

ReadSucceeded == codec_opened # None /\ ~Failed(OpenedResult)

\* the ID attributes of the Item and MarkupItem children of an Itemlist, in
\* document order
PositionIdsOf(itemlist) ==
    LET positions == SelectSeq(itemlist.kids,
                               LAMBDA e : e.tag \in {"Item", "MarkupItem"})
    IN  [k \in 1..Len(positions) |-> GetAttr(positions[k], "ID")]

\* C14: after a file is read, the item list of its category holds the
\* positions of the category's Itemlist in document order, Item and
\* MarkupItem elements alike
C14_ItemsInDocumentOrder ==
    ReadSucceeded =>
        LET lists == Descendants(OpenedRoot, "Itemlist")
            categories == Val(OpenedResult.boq).categories
        IN  /\ Len(categories) = Len(lists)
            /\ \A c \in 1..Len(lists) :
                  [k \in 1..Len(categories[c].items) |->
                      categories[c].items[k].id] = PositionIdsOf(lists[c])

\* a namespace that begins with the fixed head, two digits, a slash and a
\* version of digits and points
MatchesNsPattern(ns_uri) ==
    \E n \in 5..Len(ns_uri) :
        /\ SubSeq(ns_uri, 1, 1) = <<NsHead>>
        /\ IsDigit(ns_uri[2]) /\ IsDigit(ns_uri[3])
        /\ ns_uri[4] = "/"
        /\ \A k \in 5..n : IsDigit(ns_uri[k]) \/ ns_uri[k] = "."

\* the two-digit codes of the phases
KnownCodes == {DPValue(phase) : phase \in GAEBPhase}

\* the decimal fields of an item by the element each is read from
DecimalField ==
    [Qty |-> "qty", PredQty |-> "pred_qty", UP |-> "up",
     DiscountPcnt |-> "discount_pcnt", IT |-> "it", VAT |-> "vat"]

\* the first item of a project that was read
FirstItem(project) == Val(project.boq).categories[1].items[1]

\* an item with the value read from one decimal element unset
Unset(item, tag) ==
    IF tag = "UPComp1"
    THEN [item EXCEPT !.up_components =
             [k \in DOMAIN @ \ {1} |-> @[k]]]
    ELSE [item EXCEPT ![DecimalField[tag]] = None]

\* C15: when one decimal element of a well-formed file holds a text that is
\* no decimal, read succeeds and gives the project of the well-formed file
\* with that one field unset
C15_MalformedDecimalLeavesFieldUnset ==
    codec_opened # None =>
        \A k \in 1..Len(DecimalTags), bad \in BadDecimals :
            OpenedRoot = CorruptFile(DecimalTags[k], bad) =>
                /\ ~Failed(OpenedResult)
                /\ OpenedResult =
                      [read(DecimalFile(GoodDecimal)) EXCEPT
                          !.boq[1].categories[1].items[1] =
                              Unset(@, DecimalTags[k])]

\* a file with a non-numeric Qty is open: the item has no quantity, and
\* its unit, unit price and not-offered flag are those of the file
C15_Witness ==
    /\ codec_opened # None
    /\ OpenedRoot = CorruptFile("Qty", <<"a", "b", "c">>)
    /\ codec_project = OpenedResult
    /\ FirstItem(codec_project).qty = None
    /\ FirstItem(codec_project).qu = <<"m2">>
    /\ FirstItem(codec_project).up = Some(20000)
    /\ FirstItem(codec_project).not_offered

\* C16: read fails with the error of an unrecognised format, and gives no
\* phase, whenever the root has no namespace, its namespace does not begin
\* with a match of the pattern, or the two-digit code is not a phase's
C16_UnrecognisedNamespaceFailsRead ==
    codec_opened # None =>
        LET ns_uri == GetAttr(OpenedRoot, "xmlns")
        IN  (\/ ~HasNamespace(OpenedRoot)
             \/ ~MatchesNsPattern(ns_uri)
             \/ SubSeq(ns_uri, 2, 3) \notin KnownCodes) =>
                /\ OpenedResult = [error |-> <<"ValueError">>]
                /\ ~HasAttr(OpenedResult, "phase")

\* a file whose namespace has the shape of the pattern and the code 99 was
\* opened and refused, and the window kept the project it had
C16_Witness ==
    /\ codec_opened # None
    /\ Failed(OpenedResult)
    /\ codec_project \in {MemoryProject("X83", kind) : kind \in ItemKinds}
    /\ LET ns_uri == GetAttr(OpenedRoot, "xmlns")
       IN  /\ MatchesNsPattern(ns_uri)
           /\ SubSeq(ns_uri, 2, 3) = <<"9", "9">>

-----------------------------------------------------------------------------
(* Properties of the formula sidecar *)

\* the items of a list of categories with their subcategories'
RECURSIVE AllItems(_)
AllItems(categories) ==
    IF categories = <<>> THEN {}
    ELSE Range(Head(categories).items) \cup
         AllItems(Head(categories).subcategories) \cup
         AllItems(Tail(categories))

\* C17: after every save the sidecar file exists if and only if at least
\* one item of the project has a formula
C17_SidecarIffSomeFormula ==
    [][DoSave =>
          (codec_sidecar' # None <=>
              \E item \in AllItems(Val(codec_project.boq).categories) :
                  item.formula # <<>>)]_vars

-----------------------------------------------------------------------------
(* Properties of the preserved subtrees of a description *)

\* the description of the position as the opened file gave it, and as it is
\* being edited
OpenedDescription == FirstItem(OpenedResult).description

EditedDescription == EditedItem.description

\* the DetailTxt element of a Description element, or None
DetailTxtOf(description) == FindPath(description, <<"CompleteText", "DetailTxt">>)

\* the TextComplement elements of a Description element
ComplementsOf(description) ==
    IF IsNone(DetailTxtOf(description)) THEN <<>>
    ELSE FindAll(Val(DetailTxtOf(description)), "TextComplement")

\* the plain text the Text child of a written DetailTxt shows
WrittenDetailText(description) ==
    IF IsNone(DetailTxtOf(description)) THEN <<>>
    ELSE IF IsNone(Find(Val(DetailTxtOf(description)), "Text")) THEN <<>>
    ELSE extract_plain_text(Val(Find(Val(DetailTxtOf(description)), "Text")))

\* the Description element write built for the position; a position written
\* without one is taken as holding an empty one
WrittenDescription ==
    LET written == Descendants(Val(codec_built).elem, "Description")
    IN  IF written = <<>> THEN SubNode("Description", <<>>) ELSE written[1]

OriginalDescription == Descendants(OpenedRoot, "Description")[1]

\* C18: the preserved DetailTxt stays with the description only as long as
\* the detail text is the one it was read with; the Description element
\* that write builds holds the STLBBau, the PerfDescr and the text
\* complements of the opened file unchanged, the preserved DetailTxt
\* unchanged while it is there, and the current detail text once it is
\* dropped
C18_RawSlotsKeptUntilTextEdited ==
    /\ codec_opened # None /\ ~IsNone(EditedDescription.detail_txt_raw) =>
          /\ EditedDescription.detail_txt_raw =
                OpenedDescription.detail_txt_raw
          /\ EditedDescription.detail_text = OpenedDescription.detail_text
          /\ EditedDescription.detail_html = OpenedDescription.detail_html
    /\ codec_built # None =>
          /\ Find(WrittenDescription, "STLBBau") =
                Find(OriginalDescription, "STLBBau")
          /\ Find(WrittenDescription, "PerfDescr") =
                Find(OriginalDescription, "PerfDescr")
          /\ ComplementsOf(WrittenDescription) =
                ComplementsOf(OriginalDescription)
          /\ IF ~IsNone(EditedDescription.detail_txt_raw)
             THEN DetailTxtOf(WrittenDescription) =
                  DetailTxtOf(OriginalDescription)
             ELSE WrittenDetailText(WrittenDescription) =
                  EditedDescription.detail_text

-----------------------------------------------------------------------------
(* Properties of the OZ mask *)

\* the rules of a mask: exactly one Item level, at most one Lot and then
\* first, at most one Index and then last and one digit long, at most
\* MAX_OZ_LENGTH digits in all, at most five Lot and BoQLevel levels
MaskRules(breakdowns) ==
    /\ CountOfType(breakdowns, {<<"Item">>}) = 1
    /\ CountOfType(breakdowns, {<<"Lot">>}) <= 1
    /\ CountOfType(breakdowns, {<<"Lot">>}) = 1 =>
           breakdowns[1].type = <<"Lot">>
    /\ CountOfType(breakdowns, {<<"Index">>}) <= 1
    /\ CountOfType(breakdowns, {<<"Index">>}) = 1 =>
           /\ breakdowns[Len(breakdowns)].type = <<"Index">>
           /\ breakdowns[Len(breakdowns)].length = 1
    /\ TotalLength(breakdowns) <= MAX_OZ_LENGTH
    /\ CountOfType(breakdowns, {<<"Lot">>, <<"BoQLevel">>}) <= 5

\* C19: in every state of a project, after a read, a creation, a change of
\* the OZ mask and any undo or redo of it, the mask of the BoQ obeys the
\* rules of a mask
C19_MaskRulesInEveryState == MaskRules(boq_breakdowns)

-----------------------------------------------------------------------------
(* Properties of the move command *)

\* the command an undo step undoes
UndoneMove == undo_stack[undo_index]

\* C20: for every list, every element of it and both directions, the redo of
\* a MoveNodeCommand followed by its undo leaves the list in the order it had
\* before, also when the first element is moved up or the last one down
C20_RedoThenUndoRestoresOrder ==
    [][(/\ UndoMove
        /\ parent_list = MoveNodeCommand_redo(UndoneMove.before, UndoneMove))
       => parent_list' = UndoneMove.before]_vars

-----------------------------------------------------------------------------
(* Properties of the drag-and-drop command *)

\* the command an undo step undoes
UndoneDragDrop == undo_stack[undo_index]

\* C21: for every source list, target list (the same list or another one),
\* source index and target index, the redo of a DragDropMoveCommand followed
\* by its undo leaves both lists with the elements and the order they had
\* before the redo
C21_DragDropRedoThenUndoRestores ==
    [][(/\ UndoDragDrop
        /\ boq_lists =
               DragDropMoveCommand_redo(UndoneDragDrop.before, UndoneDragDrop))
       => boq_lists' = UndoneDragDrop.before]_vars

-----------------------------------------------------------------------------
(* Properties of the commands of the window *)

UndoneCommand == undo_stack[undo_index]

RedoneCommand == undo_stack[undo_index + 1]

\* the project handed to the conversion, which no later step touches
ProjectBeforeConversion(P, C, I) ==
    ProjectValue(P, C, I, Val(conv_call).project)

\* C22: a phase conversion is an undoable step: one undo of the pushed
\* conversion restores the project as it was before the conversion (phase
\* and all item fields) and leaves the conversion on the stack to be redone,
\* and the redo of it makes the converted project the project of the window
C22_ConversionUndoneAndRedone ==
    [][/\ (DoUndo /\ UndoneCommand.kind = "PhaseConvertCommand") =>
              /\ ~app_crashed'
              /\ ProjectValue(projects', cats', items', Val(main_project'))
                     = ProjectBeforeConversion(projects, cats, items)
              /\ undo_index' < Len(undo_stack')
              /\ undo_stack'[undo_index' + 1].kind = "PhaseConvertCommand"
              /\ undo_stack'[undo_index' + 1].new_project
                     = Val(conv_result).project
       /\ (DoRedo /\ RedoneCommand.kind = "PhaseConvertCommand") =>
              /\ ~app_crashed'
              /\ main_project' = Some(Val(conv_result).project)]_vars

\* the attribute a property-edit command works on
AttributeOf(C, I, cmd) ==
    IF cmd.kind = "EditItemPropertyCommand"
    THEN I[cmd.target][cmd.property_name]
    ELSE C[cmd.target][cmd.property_name]

\* what a push of an edit of (kind, target, property_name) to value does
MergeRule(kind, target, property_name, old, value) ==
    LET same == /\ undo_index > 0
                /\ UndoneCommand.kind = kind
                /\ UndoneCommand.target = target
                /\ UndoneCommand.property_name = property_name
        top == undo_stack'[undo_index']
    IN  /\ (undo_index' = undo_index) <=> same
        /\ same => /\ top.old_value = UndoneCommand.old_value
                   /\ top.new_value = value
        /\ ~same => /\ top.kind = kind /\ top.target = target
                    /\ top.property_name = property_name
                    /\ top.old_value = old /\ top.new_value = value

\* C26: an edit merges into the command on top of the stack only when that
\* command is of the same class, on the same object and the same property;
\* the merged command keeps its old value and takes the new value of the
\* edit, so that its undo restores the value held before the first edit of
\* the run and its redo sets the value of the last edit
C26_MergeKeepsFirstOldLastNew ==
    [][/\ \A i \in DOMAIN items, pn \in {"qu", "rno_part"},
             v \in QuValues \cup RnoValues :
              OnItemFieldChanged(i, pn, v) =>
                  MergeRule("EditItemPropertyCommand", i, pn, items[i][pn], v)
       /\ \A c \in DOMAIN cats, v \in RnoValues :
              OnCategoryFieldChanged(c, "rno_part", v) =>
                  MergeRule("EditCategoryPropertyCommand", c, "rno_part",
                            cats[c].rno_part, v)
       /\ (DoUndo /\ IsEditCommand(UndoneCommand)) =>
              AttributeOf(cats', items', UndoneCommand) = UndoneCommand.first_old
       /\ (DoRedo /\ IsEditCommand(RedoneCommand)) =>
              AttributeOf(cats', items', RedoneCommand) = RedoneCommand.last_new]_vars

\* a run of two merged edits of the unit of an item, m and back to the empty
\* unit, stands undone on the stack below nothing else
C26_Witness ==
    /\ Len(undo_stack) = 1 /\ undo_index = 0
    /\ undo_stack[1].kind = "EditItemPropertyCommand"
    /\ undo_stack[1].property_name = "qu"
    /\ undo_stack[1].old_value = <<>> /\ undo_stack[1].new_value = <<>>
    /\ items[undo_stack[1].target].qu = <<>>

-----------------------------------------------------------------------------
(* Properties of the recent files *)

\* the number of the last add_file call for a path, 0 if there was none
LastAdd(log, f) ==
    LET S == {k \in 1..Len(log) : log[k] = f}
    IN  IF S = {} THEN 0 ELSE CHOOSE k \in S : \A j \in S : j <= k

RecentListOK(result, disk, log) ==
    /\ Len(result) <= MAX_RECENT_FILES
    /\ \A j, k \in 1..Len(result) : j # k => result[j] # result[k]
    /\ \A k \in 1..Len(result) : result[k] \in disk
    /\ \A k \in 1..Len(result) : LastAdd(log, result[k]) > 0
    /\ \A j, k \in 1..Len(result) :
           j < k => LastAdd(log, result[j]) > LastAdd(log, result[k])

\* C23: after any sequence of add_file and clear calls get_recent_files
\* returns at most 10 paths, none of them twice, from the most recently
\* added to the least recently added, all of them existing files; a path
\* added again, if its file exists, is the first of the list afterwards
C23_RecentFilesList ==
    [][/\ \A files \in SettingsValue(recent_settings') :
              RecentListOK(get_recent_files(files, recent_disk'),
                           recent_disk', recent_log')
       /\ \A file_path \in AddInputs :
              (AddFile(file_path) /\ resolve(file_path) \in recent_disk) =>
                  \A files \in SettingsValue(recent_settings') :
                      get_recent_files(files, recent_disk')[1]
                          = resolve(file_path)]_vars

\* the list is full, the oldest file has been dropped from it and was then
\* added again by its relative path, which put it in front
C23_Witness ==
    /\ Len(recent_settings) = MAX_RECENT_FILES
    /\ recent_settings[1] = FilePath(1)
    /\ recent_settings[2] = FilePath(PreAdded + 2)
    /\ recent_log[Len(recent_log)] = FilePath(1)
    /\ get_recent_files([type |-> "list", value |-> recent_settings],
                        recent_disk) = recent_settings

-----------------------------------------------------------------------------
(* Properties of the auto-numbering *)

\* the numbers among the parts: the parts made of digits only
IntegerParts(parts) ==
    {NatValue(parts[k]) : k \in {j \in 1..Len(parts) :
        parts[j] # <<>> /\ \A c \in Range(parts[j]) : IsDigit(c)}}

\* 1 plus the largest of them, 1 when there is none
NextNumber(parts) ==
    LET S == IntegerParts(parts)
    IN  IF S = {} THEN 1 ELSE 1 + (CHOOSE m \in S : \A n \in S : n <= m)

AddedRnoPart == parent_list'[Len(parent_list')].rno_part

SiblingParts == [k \in 1..Len(parent_list) |-> parent_list[k].rno_part]

\* C27: for a numeric and a non-numeric mask level alike the ordinal part
\* generated for a new node has the length of the mask level and is the
\* decimal representation of 1 plus the largest integer-valued existing
\* part, 1 when there is none, with zeros in front
C27_NextRnoHasMaskLength ==
    [][add_category =>
          LET level == Val(get_mask_level_for_category(boq_breakdowns, 0))
          IN  /\ Len(AddedRnoPart) = level.length
              /\ NatValue(AddedRnoPart) = NextNumber(SiblingParts)
              /\ \A c \in Range(AddedRnoPart) : IsDigit(c)]_vars

-----------------------------------------------------------------------------
(* Properties of the commands of the tree *)

\* every list that was recorded holds the same objects at the same places
SameLists(lists, recorded) ==
    \A key \in DOMAIN recorded : lists[key] = recorded[key]

\* C28: after a sequence of add, delete, move, drag-and-drop and duplicate
\* commands, lists with elements equal by value included, the undo of the
\* first of them, all the others being undone, leaves the tree as it was
\* at the start, the same objects at the same places of the same lists, and
\* the redo of the last of them leaves the tree as it was after the sequence
C28_UndoAllRedoAllRestores ==
    [][/\ (UndoCommand /\ undo_index' = 0) =>
              SameLists(boq_lists', undo_stack[1].before)
       /\ (RedoCommand /\ undo_index' = Len(undo_stack)) =>
              SameLists(boq_lists', undo_stack[Len(undo_stack)].after)]_vars

\* the objects the tree view shows, one for every node
Reachable(lists) ==
    LET nodes == TreeNodes(lists) IN [k \in 1..Len(nodes) |-> nodes[k].data]

\* the number of places of the sequence that hold the object itself
Occurrences(seq, x) == Cardinality({k \in 1..Len(seq) : seq[k] = x})

\* the category is among the categories below itself
OwnAncestor(lists, c) ==
    \E k \in 1..Len(lists[Subs(c)]) :
        c \in CategoriesBelow(lists, lists[Subs(c)][k],
                              Cardinality(CategoryObjects(lists)))

\* a step in which a drop was accepted: a DragDropMoveCommand was pushed
DropAccepted ==
    /\ Len(undo_stack') = Len(undo_stack) + 1
    /\ undo_index' = Len(undo_stack')
    /\ undo_stack'[undo_index'].kind = "DragDropMoveCommand"

\* C29: after a drop the application accepts, a category dropped onto itself
\* or onto a category below it included, every category and position that
\* was reachable from the root is reachable exactly once, and no category
\* is its own ancestor
C29_DropKeepsTree ==
    [][DropAccepted =>
          /\ \A x \in Range(Reachable(boq_lists)) :
                 Occurrences(Reachable(boq_lists'), x) = 1
          /\ \A c \in CategoryObjects(boq_lists') :
                 ~OwnAncestor(boq_lists', c)]_vars

====
